---- MODULE Spec2Model ----
(***************************************************************************)
(* A model of the nu-shell command-execution core: the tokenizer           *)
(* (parseCommandLine), the pipeline splitter (parsePipeline), the          *)
(* redirection extractor (parseRedirection), the internal commands, the    *)
(* external runner (executeSingleCommand), the pipeline executor           *)
(* (executePipeline) and the readline line handler that routes a line.     *)
(*                                                                         *)
(* Strings are sequences of one-character strings.  JavaScript indices are *)
(* 0-based; the model's indices are 1-based, so `i < input.length` reads   *)
(* `i <= Len(input)` here.                                                 *)
(***************************************************************************)
EXTENDS Integers, Sequences, FiniteSets, TLC

VARIABLES
    input,      \* parseCommandLine: the string being tokenized
    lex,        \* parseCommandLine: its locals (i, currentToken, tokens, quote flags)
    lexpc,      \* parseCommandLine: "loop" inside the while loop, "done" after return
    line,       \* the line the readline `line` event delivered
    mode,       \* what the line handler started: "idle" before the line, then
                \* "prompted", "exited", "builtin", "single", "pipeline", "crashed"
    prompts,    \* rl.prompt() calls made for the line (completion callbacks included)
    world,      \* process state: stdout, stderr, files, history, lastSavedIndex, cwd, home
    pipe,       \* executePipeline: commands, processes, streams, completedCount, ...
    single,     \* executeSingleCommand: childProcess, writeStream, processClosed, ...
    promise,    \* the promise executeBuiltin returned to the line handler
    tokenList,  \* a token list handed to parsePipeline or parseRedirection
    plan,       \* what that call returned
    planpc,     \* "off", "start", then "split" or "extracted"
    call,       \* the last call made on the history manager, and its result
    overlap,    \* a line handled while the command of `line` was still running
    tab,        \* the completer: lastTabInput, the edited line, the last Tab press
    lcp         \* findLongestCommonPrefix: its argument, locals, position and result

parseVars == <<input, lex, lexpc>>

shellVars == <<line, mode, prompts, world, pipe, single, promise>>

planVars == <<tokenList, plan, planpc>>

historyVars == <<call>>

replVars == <<overlap, tab, lcp>>

vars == <<input, lex, lexpc, line, mode, prompts, world, pipe, single, promise,
          tokenList, plan, planpc, call, overlap, tab, lcp>>

----------------------------------------------------------------------------
(* Characters *)

SQ == "'"
DQ == "\""
BS == "\\"
SP == " "
TAB == "\t"
NL == "\n"

\* Longest input string the tokenizer specification enumerates.
MaxLen == 5

\* The characters the tokenizer specification draws its inputs from.
Alphabet == {"a", "b", SP, TAB, SQ, DQ, BS}

RECURSIVE StringsUpTo(_)
StringsUpTo(n) ==
    IF n = 0 THEN {<<>>}
    ELSE LET shorter == StringsUpTo(n - 1)
         IN  shorter \cup {Append(s, c) : s \in {t \in shorter : Len(t) = n - 1}, c \in Alphabet}

----------------------------------------------------------------------------
(* Array.prototype.join and String.prototype.split *)

\* Array.prototype.join: the elements with sep between consecutive ones.
RECURSIVE Join(_, _)
Join(toks, sep) ==
    IF toks = <<>> THEN <<>>
    ELSE IF Len(toks) = 1 THEN toks[1]
    ELSE toks[1] \o sep \o Join(Tail(toks), sep)

\* String.prototype.split(sep) for a one-character sep, from position k on.
RECURSIVE SplitOn(_, _, _, _)
SplitOn(str, sep, k, piece) ==
    IF k > Len(str) THEN <<piece>>
    ELSE IF str[k] = sep THEN <<piece>> \o SplitOn(str, sep, k + 1, <<>>)
    ELSE SplitOn(str, sep, k + 1, Append(piece, str[k]))

----------------------------------------------------------------------------
(* parseCommandLine *)

\* A separator test that knows the space only.
IsSpaceOnly(c) == c = SP

IsSpace(c) == c = SP \/ c = TAB

\* SECTION 5 without its inner while: the index stays on the whitespace.
SkipNothing(str, i) == i

\* The inner `while (i < input.length && (input[i] === " " || input[i] === "\t")) i++`.
RECURSIVE SkipWhitespace(_, _)
SkipWhitespace(str, i) ==
    IF i <= Len(str) /\ IsSpace(str[i]) THEN SkipWhitespace(str, i + 1) ELSE i

\* The locals of parseCommandLine before the loop.
LexInit ==
    [i |-> 1, currentToken |-> <<>>, tokens |-> <<>>,
     inSingleQuotes |-> FALSE, inDoubleQuotes |-> FALSE]

\* A tokenizer that drops the backslash before every character inside double
\* quotes, as it does outside quotes.
DropBackslashInDouble(str, s) ==
    IF s.i + 1 <= Len(str)
    THEN [s EXCEPT !.currentToken = Append(@, str[s.i + 1]), !.i = @ + 2]
    ELSE [s EXCEPT !.currentToken = Append(@, str[s.i]), !.i = @ + 1]

\* SECTION 1: backslash inside double quotes.
LexEscapeInDouble(str, s) ==
    IF s.i + 1 <= Len(str)
    THEN LET nextChar == str[s.i + 1]
         IN  IF nextChar = DQ
             THEN [s EXCEPT !.currentToken = Append(@, DQ), !.i = @ + 2]
             ELSE IF nextChar = BS
             THEN [s EXCEPT !.currentToken = Append(@, BS), !.i = @ + 2]
             ELSE [s EXCEPT !.currentToken = @ \o <<BS, nextChar>>, !.i = @ + 2]
    ELSE [s EXCEPT !.currentToken = Append(@, str[s.i]), !.i = @ + 1]

\* SECTION 2: backslash outside quotes.
LexEscapeOutside(str, s) ==
    IF s.i + 1 <= Len(str)
    THEN [s EXCEPT !.currentToken = Append(@, str[s.i + 1]), !.i = @ + 2]
    ELSE [s EXCEPT !.currentToken = Append(@, str[s.i]), !.i = @ + 1]

\* A tokenizer whose opening single quote falls through to SECTION 5 (a
\* missing `continue`), so the quote itself is appended.
KeepOpeningSingleQuote(str, s) ==
    IF s.inSingleQuotes
    THEN IF s.i + 1 <= Len(str) /\ str[s.i + 1] = SQ
         THEN [s EXCEPT !.i = @ + 2]
         ELSE [s EXCEPT !.inSingleQuotes = FALSE, !.i = @ + 1]
    ELSE IF s.i + 1 <= Len(str) /\ str[s.i + 1] = SQ
         THEN [s EXCEPT !.i = @ + 2]
         ELSE [s EXCEPT !.inSingleQuotes = TRUE, !.i = @ + 1,
                        !.currentToken = Append(@, SQ)]

\* SECTION 3: a single quote while not inside double quotes.
LexSingleQuote(str, s) ==
    IF s.inSingleQuotes
    THEN IF s.i + 1 <= Len(str) /\ str[s.i + 1] = SQ
         THEN [s EXCEPT !.i = @ + 2]
         ELSE IF s.i + 1 <= Len(str) /\ str[s.i + 1] = SQ
              THEN [s EXCEPT !.inSingleQuotes = TRUE, !.i = @ + 2]
              ELSE [s EXCEPT !.inSingleQuotes = FALSE, !.i = @ + 1]
    ELSE IF s.i + 1 <= Len(str) /\ str[s.i + 1] = SQ
         THEN [s EXCEPT !.i = @ + 2]
         ELSE [s EXCEPT !.inSingleQuotes = TRUE, !.i = @ + 1]

\* SECTION 4: a double quote while not inside single quotes.
LexDoubleQuote(str, s) ==
    IF s.inDoubleQuotes
    THEN IF s.i + 1 <= Len(str) /\ str[s.i + 1] = DQ
         THEN [s EXCEPT !.i = @ + 2]
         ELSE IF s.i + 1 <= Len(str) /\ str[s.i + 1] = DQ
              THEN [s EXCEPT !.inDoubleQuotes = TRUE, !.i = @ + 2]
              ELSE [s EXCEPT !.inDoubleQuotes = FALSE, !.i = @ + 1]
    ELSE IF s.i + 1 <= Len(str) /\ str[s.i + 1] = DQ
         THEN [s EXCEPT !.i = @ + 2]
         ELSE [s EXCEPT !.inDoubleQuotes = TRUE, !.i = @ + 1]

\* SECTION 5: build the token, or separate on unquoted whitespace.
LexCharacter(str, s) ==
    LET char == str[s.i]
    IN  IF s.inSingleQuotes \/ s.inDoubleQuotes
        THEN [s EXCEPT !.currentToken = Append(@, char), !.i = @ + 1]
        ELSE IF IsSpace(char)
             THEN [s EXCEPT
                     !.tokens = IF Len(s.currentToken) > 0
                                THEN Append(@, s.currentToken) ELSE @,
                     !.currentToken = <<>>,
                     !.i = SkipWhitespace(str, s.i)]
             ELSE [s EXCEPT !.currentToken = Append(@, char), !.i = @ + 1]

\* One iteration of `while (i < input.length)`.
LexStep(str, s) ==
    LET char == str[s.i]
    IN  IF char = BS /\ s.inDoubleQuotes /\ ~s.inSingleQuotes
        THEN LexEscapeInDouble(str, s)
        ELSE IF char = BS /\ ~s.inSingleQuotes /\ ~s.inDoubleQuotes
        THEN LexEscapeOutside(str, s)
        ELSE IF char = SQ /\ ~s.inDoubleQuotes
        THEN LexSingleQuote(str, s)
        ELSE IF char = DQ /\ ~s.inSingleQuotes
        THEN LexDoubleQuote(str, s)
        ELSE LexCharacter(str, s)

\* A tokenizer that forgets the token still in the buffer at end of input.
DropLastToken(s) == s.tokens

\* After the loop: "Add the last token if one exists", then return tokens.
LexReturn(s) ==
    IF Len(s.currentToken) > 0 THEN Append(s.tokens, s.currentToken) ELSE s.tokens

RECURSIVE LexRun(_, _)
LexRun(str, s) ==
    IF s.i <= Len(str) THEN LexRun(str, LexStep(str, s)) ELSE s

\* parseCommandLine(input) as a function of its argument.
parseCommandLine(str) == LexReturn(LexRun(str, LexInit))

----------------------------------------------------------------------------
(* Words: the strings the code compares tokens with or prints *)

Str_echo == <<"e", "c", "h", "o">>
Str_exit == <<"e", "x", "i", "t">>
Str_type == <<"t", "y", "p", "e">>
Str_pwd == <<"p", "w", "d">>
Str_cd == <<"c", "d">>
Str_history == <<"h", "i", "s", "t", "o", "r", "y">>
Str_pipe == <<"|">>
Str_gt == <<">">>
Str_gtgt == <<">", ">">>
Str_1gt == <<"1", ">">>
Str_1gtgt == <<"1", ">", ">">>
Str_2gt == <<"2", ">">>
Str_2gtgt == <<"2", ">", ">">>
Str_1 == <<"1">>
Str_2 == <<"2">>
Str_commandNotFound == <<":", " ", "c", "o", "m", "m", "a", "n", "d", " ", "n", "o", "t", " ", "f", "o", "u", "n", "d">>
Str_syntaxError == <<"s", "y", "n", "t", "a", "x", " ", "e", "r", "r", "o", "r", " ", "n", "e", "a", "r", " ", "u", "n", "e", "x", "p", "e", "c", "t", "e", "d", " ", "t", "o", "k", "e", "n", " ", "'", "|", "'">>
Str_isBuiltin == <<" ", "i", "s", " ", "a", " ", "s", "h", "e", "l", "l", " ", "b", "u", "i", "l", "t", "i", "n">>
Str_is == <<" ", "i", "s", " ">>
Str_notFound == <<":", " ", "n", "o", "t", " ", "f", "o", "u", "n", "d">>
Str_typeMissing == <<"t", "y", "p", "e", ":", " ", "m", "i", "s", "s", "i", "n", "g", " ", "a", "r", "g", "u", "m", "e", "n", "t">>
Str_ErrorPrefix == <<"E", "r", "r", "o", "r", ":", " ">>

\* The value JavaScript's null and undefined have in the model: a sequence
\* that is no string, since every string is a sequence of single characters.
null == <<"null">>

----------------------------------------------------------------------------
(* parsePipeline *)

\* The for-loop with the `return []` at an empty command missing: it prints
\* the diagnostic and walks on.
RECURSIVE PipelineWalkOn(_, _, _)
PipelineWalkOn(toks, k, st) ==
    IF k > Len(toks) THEN st
    ELSE IF toks[k] = Str_pipe
         THEN IF Len(st.currentCommand) = 0
              THEN PipelineWalkOn(toks, k + 1,
                       [st EXCEPT !.printed = Append(@, Str_syntaxError)])
              ELSE PipelineWalkOn(toks, k + 1,
                       [st EXCEPT !.commands = Append(@, st.currentCommand),
                                  !.currentCommand = <<>>])
         ELSE PipelineWalkOn(toks, k + 1,
                  [st EXCEPT !.currentCommand = Append(@, toks[k])])

\* The for-loop over tokens from position k on; st holds commands,
\* currentCommand, the lines printed, and failed (the early `return []`).
RECURSIVE PipelineWalk(_, _, _)
PipelineWalk(toks, k, st) ==
    IF k > Len(toks) \/ st.failed THEN st
    ELSE IF toks[k] = Str_pipe
         THEN IF Len(st.currentCommand) = 0
              THEN [st EXCEPT !.printed = Append(@, Str_syntaxError), !.failed = TRUE]
              ELSE PipelineWalk(toks, k + 1,
                       [st EXCEPT !.commands = Append(@, st.currentCommand),
                                  !.currentCommand = <<>>])
         ELSE PipelineWalk(toks, k + 1,
                  [st EXCEPT !.currentCommand = Append(@, toks[k])])

\* parsePipeline without the push of the last command after the loop.
parsePipelineNoFlush(toks) ==
    LET st == PipelineWalk(toks, 1,
                  [commands |-> <<>>, currentCommand |-> <<>>,
                   printed |-> <<>>, failed |-> FALSE])
    IN  IF st.failed
        THEN [commands |-> <<>>, printed |-> st.printed]
        ELSE IF Len(st.currentCommand) = 0 /\ Len(st.commands) > 0
        THEN [commands |-> <<>>, printed |-> Append(st.printed, Str_syntaxError)]
        ELSE [commands |-> st.commands, printed |-> st.printed]

\* parsePipeline without the check for a trailing pipe after the loop.
parsePipelineNoEndCheck(toks) ==
    LET st == PipelineWalk(toks, 1,
                  [commands |-> <<>>, currentCommand |-> <<>>,
                   printed |-> <<>>, failed |-> FALSE])
    IN  IF st.failed
        THEN [commands |-> <<>>, printed |-> st.printed]
        ELSE IF Len(st.currentCommand) > 0
        THEN [commands |-> Append(st.commands, st.currentCommand), printed |-> st.printed]
        ELSE [commands |-> st.commands, printed |-> st.printed]

\* parsePipeline(tokens): the commands returned and the lines it printed.
parsePipeline(toks) ==
    LET st == PipelineWalk(toks, 1,
                  [commands |-> <<>>, currentCommand |-> <<>>,
                   printed |-> <<>>, failed |-> FALSE])
    IN  IF st.failed
        THEN [commands |-> <<>>, printed |-> st.printed]
        ELSE IF Len(st.currentCommand) = 0 /\ Len(st.commands) > 0
        THEN [commands |-> <<>>, printed |-> Append(st.printed, Str_syntaxError)]
        ELSE IF Len(st.currentCommand) > 0
        THEN [commands |-> Append(st.commands, st.currentCommand), printed |-> st.printed]
        ELSE [commands |-> st.commands, printed |-> st.printed]

----------------------------------------------------------------------------
(* parseRedirection *)

\* The target lookup with the bound of a 0-based index kept on a 1-based one:
\* the last token is never a target.
TokenOrNullShort(toks, k) == IF k < Len(toks) THEN toks[k] ELSE null

\* tokens[k] when it exists, else null (`i + 1 < tokens.length ? tokens[i + 1] : null`).
TokenOrNull(toks, k) == IF k <= Len(toks) THEN toks[k] ELSE null

\* What the scan records when it breaks at position k.
Redirect(k, fd, append, file) ==
    [redirectIndex |-> k, redirectFd |-> fd, isAppend |-> append, redirectFile |-> file]

\* The scanning for-loop from position k on: CASE 1 to CASE 10 in order.
RECURSIVE RedirectionScan(_, _)
RedirectionScan(toks, k) ==
    IF k > Len(toks)
    THEN Redirect(-1, 1, FALSE, null)
    ELSE LET token == toks[k]
             hasNext == k + 1 <= Len(toks)
         IN  IF token = Str_gt THEN Redirect(k, 1, FALSE, TokenOrNull(toks, k + 1))
             ELSE IF token = Str_gtgt THEN Redirect(k, 1, TRUE, TokenOrNull(toks, k + 1))
             ELSE IF token = Str_1gt THEN Redirect(k, 1, FALSE, TokenOrNull(toks, k + 1))
             ELSE IF token = Str_1gtgt THEN Redirect(k, 1, TRUE, TokenOrNull(toks, k + 1))
             ELSE IF token = Str_2gt THEN Redirect(k, 2, FALSE, TokenOrNull(toks, k + 1))
             ELSE IF token = Str_2gtgt THEN Redirect(k, 2, TRUE, TokenOrNull(toks, k + 1))
             ELSE IF token = Str_1 /\ hasNext /\ toks[k + 1] = Str_gt
             THEN Redirect(k, 1, FALSE, TokenOrNull(toks, k + 2))
             ELSE IF token = Str_1 /\ hasNext /\ toks[k + 1] = Str_gtgt
             THEN Redirect(k, 1, TRUE, TokenOrNull(toks, k + 2))
             ELSE IF token = Str_2 /\ hasNext /\ toks[k + 1] = Str_gt
             THEN Redirect(k, 2, FALSE, TokenOrNull(toks, k + 2))
             ELSE IF token = Str_2 /\ hasNext /\ toks[k + 1] = Str_gtgt
             THEN Redirect(k, 2, TRUE, TokenOrNull(toks, k + 2))
             ELSE RedirectionScan(toks, k + 1)

\* parseRedirection with tokens.slice(0, redirectIndex + 1): the operator
\* token stays among the command tokens.
parseRedirectionKeepOperator(toks) ==
    LET r == RedirectionScan(toks, 1)
    IN  IF r.redirectIndex = -1
        THEN [hasRedirection |-> FALSE, commandTokens |-> toks,
              redirectFile |-> null, redirectFd |-> 1, isAppend |-> FALSE]
        ELSE [hasRedirection |-> TRUE,
              commandTokens |-> SubSeq(toks, 1, r.redirectIndex),
              redirectFile |-> r.redirectFile, redirectFd |-> r.redirectFd,
              isAppend |-> r.isAppend]

\* parseRedirection(tokens).
parseRedirection(toks) ==
    LET r == RedirectionScan(toks, 1)
    IN  IF r.redirectIndex = -1
        THEN [hasRedirection |-> FALSE, commandTokens |-> toks,
              redirectFile |-> null, redirectFd |-> 1, isAppend |-> FALSE]
        ELSE [hasRedirection |-> TRUE,
              commandTokens |-> SubSeq(toks, 1, r.redirectIndex - 1),
              redirectFile |-> r.redirectFile, redirectFd |-> r.redirectFd,
              isAppend |-> r.isAppend]

----------------------------------------------------------------------------
(* The process environment and the file system the shell runs in *)

Str_cat == <<"c", "a", "t">>
Str_wc == <<"w", "c">>
Str_nope == <<"n", "o", "p", "e">>
Str_home == <<"/", "h">>
Str_root == <<"/">>
Str_tilde == <<"~">>
Str_F == <<"F">>
Str_G == <<"G">>
Str_H == <<"H">>
Str_bin == <<"/", "b", "i", "n", "/">>
Str_old == <<"o", "l", "d", "\n">>
Str_childOutput == <<"o", "u", "t", "\n">>

\* The names with an executable regular file in a directory of PATH.
PathCommands == {Str_cat, Str_wc}

\* The directories process.chdir can enter.
Directories == {Str_root, Str_home}

\* The paths the model's file system holds; every other path cannot be opened.
FilePaths == {Str_F, Str_G, Str_H}

\* HISTFILE: process.env.HISTFILE || `${HOME}/.nu_history`.
HISTFILE == Str_H

\* The files at the start of a session: F is absent, G and H hold a line.
InitialFiles == [f \in FilePaths |-> IF f = Str_F THEN null ELSE Str_old]

\* findCommandInPath(commandName): the full path, or null.
findCommandInPath(commandName) ==
    IF commandName \in PathCommands THEN Str_bin \o commandName ELSE null

\* What fs.writeFileSync / a write stream opened with flags "w" leave in a file.
FileTruncate(files, path) == [files EXCEPT ![path] = <<>>]

\* What appending data leaves in a file (created when absent).
FileAppend(files, path, data) ==
    [files EXCEPT ![path] = (IF @ = null THEN <<>> ELSE @) \o data]

IsPrefix(pre, str) == Len(pre) <= Len(str) /\ SubSeq(str, 1, Len(pre)) = pre

\* String.prototype.slice(n) with the model's 1-based sequences.
Slice(str, n) == SubSeq(str, n + 1, Len(str))

\* Decimal digits of a natural number (template literal `${i + 1}`).
DigitChars == <<"0", "1", "2", "3", "4", "5", "6", "7", "8", "9">>

RECURSIVE NatToString(_)
NatToString(n) ==
    IF n < 10 THEN <<DigitChars[n + 1]>>
    ELSE Append(NatToString(n \div 10), DigitChars[(n % 10) + 1])

DigitValue(c) == CHOOSE d \in 0..9 : DigitChars[d + 1] = c

IsDigit(c) == \E d \in 0..9 : DigitChars[d + 1] = c

\* The value of the leading run of digits of str from position k, acc so far.
RECURSIVE DigitsValue(_, _, _)
DigitsValue(str, k, acc) ==
    IF k <= Len(str) /\ IsDigit(str[k])
    THEN DigitsValue(str, k + 1, acc * 10 + DigitValue(str[k]))
    ELSE acc

\* parseInt(flag, 10) where only `!isNaN(n) && n > 0` is asked of it: the
\* positive value, or 0 for NaN, zero and negative results.
ParsePositiveInt(str) ==
    LET t == SubSeq(str, SkipWhitespace(str, 1), Len(str))
        body == IF t # <<>> /\ t[1] = "+" THEN Tail(t) ELSE t
    IN  IF body # <<>> /\ IsDigit(body[1]) THEN DigitsValue(body, 1, 0) ELSE 0

\* String.prototype.trim on the characters of the model.
RECURSIVE TrimEnd(_)
TrimEnd(str) ==
    IF str # <<>> /\ str[Len(str)] \in {SP, TAB, NL}
    THEN TrimEnd(SubSeq(str, 1, Len(str) - 1)) ELSE str

RECURSIVE TrimStart(_)
TrimStart(str) ==
    IF str # <<>> /\ str[1] \in {SP, TAB, NL} THEN TrimStart(Tail(str)) ELSE str

Trim(str) == TrimEnd(TrimStart(str))

\* content.split("\n").filter((line) => line.length > 0)
NonEmptyLines(content) ==
    SelectSeq(SplitOn(content, NL, 1, <<>>), LAMBDA l : Len(l) > 0)

----------------------------------------------------------------------------
(* historyManager: operations on the world w, a record of the process state   *)
(* (stdout, stderr, files, history, lastSavedIndex, cwd, home)                *)

addCommand(w, command) == [w EXCEPT !.history = Append(@, command)]

getHistory(w) == w.history

\* fs.readFileSync succeeds on a path that holds a file.
CanRead(w, path) == path \in FilePaths /\ w.files[path] # null

\* fs.writeFileSync / fs.appendFileSync succeed on the paths of the file system.
CanWrite(w, path) == path \in FilePaths

\* readFromFile without the assignment to lastSavedIndex.
readFromFileNoMark(w, filePath) ==
    IF CanRead(w, filePath)
    THEN [w |-> [w EXCEPT !.history = NonEmptyLines(w.files[filePath])],
          success |-> TRUE]
    ELSE [w |-> w, success |-> FALSE]

\* readFromFile without `history.length = 0`: the lines are added to the
\* entries already held.
readFromFileMerge(w, filePath) ==
    IF CanRead(w, filePath)
    THEN LET lines == w.history \o NonEmptyLines(w.files[filePath])
         IN  [w |-> [w EXCEPT !.history = lines, !.lastSavedIndex = Len(lines)],
              success |-> TRUE]
    ELSE [w |-> w, success |-> FALSE]

\* readFromFile(filePath): the world after it, and its {success}.
readFromFile(w, filePath) ==
    IF CanRead(w, filePath)
    THEN LET lines == NonEmptyLines(w.files[filePath])
         IN  [w |-> [w EXCEPT !.history = lines, !.lastSavedIndex = Len(lines)],
              success |-> TRUE]
    ELSE [w |-> w, success |-> FALSE]

\* writeToFile with the entries joined by spaces instead of newlines.
writeToFileSpaced(w, filePath) ==
    IF CanWrite(w, filePath)
    THEN LET content == Join(w.history, <<SP>>)
                          \o (IF Len(w.history) > 0 THEN <<NL>> ELSE <<>>)
         IN  [w |-> [w EXCEPT !.files = [@ EXCEPT ![filePath] = content],
                              !.lastSavedIndex = Len(w.history)],
              success |-> TRUE]
    ELSE [w |-> w, success |-> FALSE]

\* writeToFile(filePath).
writeToFile(w, filePath) ==
    IF CanWrite(w, filePath)
    THEN LET content == Join(w.history, <<NL>>)
                          \o (IF Len(w.history) > 0 THEN <<NL>> ELSE <<>>)
         IN  [w |-> [w EXCEPT !.files = [@ EXCEPT ![filePath] = content],
                              !.lastSavedIndex = Len(w.history)],
              success |-> TRUE]
    ELSE [w |-> w, success |-> FALSE]

\* appendToFile with lastSavedIndex assigned before fs.appendFileSync is
\* called, so that a failing append has moved the marker.
appendToFileMarkFirst(w, filePath) ==
    IF w.lastSavedIndex >= Len(w.history)
    THEN [w |-> w, success |-> TRUE]
    ELSE IF CanWrite(w, filePath)
    THEN LET newEntries == Slice(w.history, w.lastSavedIndex)
             content == Join(newEntries, <<NL>>) \o <<NL>>
         IN  [w |-> [w EXCEPT !.files = FileAppend(@, filePath, content),
                              !.lastSavedIndex = Len(w.history)],
              success |-> TRUE]
    ELSE [w |-> [w EXCEPT !.lastSavedIndex = Len(w.history)], success |-> FALSE]

\* appendToFile without the assignment to lastSavedIndex.
appendToFileNoMark(w, filePath) ==
    IF w.lastSavedIndex >= Len(w.history)
    THEN [w |-> w, success |-> TRUE]
    ELSE IF CanWrite(w, filePath)
    THEN LET newEntries == Slice(w.history, w.lastSavedIndex)
             content == Join(newEntries, <<NL>>) \o <<NL>>
         IN  [w |-> [w EXCEPT !.files = FileAppend(@, filePath, content)],
              success |-> TRUE]
    ELSE [w |-> w, success |-> FALSE]

\* appendToFile(filePath).
appendToFile(w, filePath) ==
    IF w.lastSavedIndex >= Len(w.history)
    THEN [w |-> w, success |-> TRUE]
    ELSE IF CanWrite(w, filePath)
    THEN LET newEntries == Slice(w.history, w.lastSavedIndex)
             content == Join(newEntries, <<NL>>) \o <<NL>>
         IN  [w |-> [w EXCEPT !.files = FileAppend(@, filePath, content),
                              !.lastSavedIndex = Len(w.history)],
              success |-> TRUE]
    ELSE [w |-> w, success |-> FALSE]

----------------------------------------------------------------------------
(* Internal commands.  A command works on r = [w, ops]: the world, and the     *)
(* operations it has applied to its output stream so far ("write", "end").    *)

Str_cdPrefix == <<"c", "d", ":", " ">>
Str_cdHome == <<"c", "d", ":", " ", "H", "O", "M", "E", " ", "n", "o", "t", " ", "s", "e", "t", "\n">>
Str_noSuchFile == <<":", " ", "N", "o", " ", "s", "u", "c", "h", " ", "f", "i", "l", "e", " ", "o", "r", " ", "d", "i", "r", "e", "c", "t", "o", "r", "y", "\n">>
Str_historyPrefix == <<"h", "i", "s", "t", "o", "r", "y", ":", " ">>
Str_optionRequires == <<":", " ", "o", "p", "t", "i", "o", "n", " ", "r", "e", "q", "u", "i", "r", "e", "s", " ", "a", "n", " ", "a", "r", "g", "u", "m", "e", "n", "t", "\n">>
Str_cannotWrite == <<":", " ", "c", "a", "n", "n", "o", "t", " ", "w", "r", "i", "t", "e", " ", "t", "o", " ", "f", "i", "l", "e", "\n">>
Str_flagR == <<"-", "r">>
Str_flagW == <<"-", "w">>
Str_flagA == <<"-", "a">>
Str_tildeSlash == <<"~", "/">>

BUILTINS == <<Str_echo, Str_exit, Str_type, Str_pwd, Str_cd, Str_history>>

StreamWrite(data) == [op |-> "write", data |-> data]
StreamEnd == [op |-> "end", data |-> <<>>]

\* outputStream.end() behind `if (outputStream)`.
EndIfStream(r, hasStream) ==
    IF hasStream THEN [r EXCEPT !.ops = Append(@, StreamEnd)] ELSE r

\* writeOutput(output, outputStream).
writeOutput(r, output, hasStream) ==
    IF hasStream
    THEN [r EXCEPT !.ops = @ \o <<StreamWrite(output), StreamEnd>>]
    ELSE [r EXCEPT !.w.stdout = @ \o output]

\* isBuiltin(command).
isBuiltin(command) == \E k \in 1..Len(BUILTINS) : BUILTINS[k] = command

\* executeEcho(args, outputStream).
executeEcho(r, args, hasStream) ==
    writeOutput(r, Join(args, <<SP>>) \o <<NL>>, hasStream)

\* executePwd(args, outputStream).
executePwd(r, args, hasStream) ==
    writeOutput(r, r.w.cwd \o <<NL>>, hasStream)

\* path.join(home, rest) for the paths of the model.
PathJoin(home, rest) ==
    IF rest = <<>> THEN home
    ELSE IF home[Len(home)] = "/" THEN home \o rest
    ELSE home \o <<"/">> \o rest

\* The tail of executeCd with a chdir that never throws.
CdChangeUnchecked(r, targetDir, hasStream) ==
    IF targetDir = null \/ targetDir = <<>>
    THEN writeOutput(r, Str_cdHome, hasStream)
    ELSE EndIfStream([r EXCEPT !.w.cwd = targetDir], hasStream)

\* The tail of executeCd once targetDir is known: chdir, then end the stream.
CdChange(r, targetDir, hasStream) ==
    IF targetDir = null \/ targetDir = <<>>
    THEN writeOutput(r, Str_cdHome, hasStream)
    ELSE LET changed ==
                 IF targetDir \in Directories
                 THEN [r EXCEPT !.w.cwd = targetDir]
                 ELSE writeOutput(r, Str_cdPrefix \o targetDir \o Str_noSuchFile,
                                  hasStream)
         IN  EndIfStream(changed, hasStream)

\* executeCd(args, outputStream).
executeCd(r, args, hasStream) ==
    LET targetDir == IF Len(args) > 0 THEN args[1] ELSE r.w.home
        home == r.w.home
    IN  IF targetDir # null /\ targetDir # <<>> /\ IsPrefix(Str_tilde, targetDir)
        THEN IF home = null \/ home = <<>>
             THEN writeOutput(r, Str_cdHome, hasStream)
             ELSE IF targetDir = Str_tilde
             THEN CdChange(r, home, hasStream)
             ELSE IF IsPrefix(Str_tildeSlash, targetDir)
             THEN CdChange(r, PathJoin(home, Slice(targetDir, 2)), hasStream)
             ELSE CdChange(r, targetDir, hasStream)
        ELSE CdChange(r, targetDir, hasStream)

\* executeType(args, outputStream).
executeType(r, args, hasStream) ==
    IF Len(args) = 0
    THEN writeOutput(r, Str_typeMissing \o <<NL>>, hasStream)
    ELSE LET commandToCheck == args[1]
             fullPath == findCommandInPath(commandToCheck)
             output ==
                 IF isBuiltin(commandToCheck)
                 THEN commandToCheck \o Str_isBuiltin \o <<NL>>
                 ELSE IF fullPath # null
                 THEN commandToCheck \o Str_is \o fullPath \o <<NL>>
                 ELSE commandToCheck \o Str_notFound \o <<NL>>
         IN  writeOutput(r, output, hasStream)

\* The display loop numbering the entries it shows from n on, whatever their
\* position in the history.
RECURSIVE RenumberedFrom(_, _, _)
RenumberedFrom(history, i, n) ==
    IF i > Len(history) THEN <<>>
    ELSE <<SP, SP, SP, SP>> \o NatToString(n) \o <<SP, SP>> \o history[i] \o <<NL>>
             \o RenumberedFrom(history, i + 1, n + 1)

HistoryLinesRenumbered(history, i) == RenumberedFrom(history, i, 1)

\* The display loop of executeHistory: entries i..length as "    N  entry\n".
RECURSIVE HistoryLines(_, _)
HistoryLines(history, i) ==
    IF i > Len(history) THEN <<>>
    ELSE <<SP, SP, SP, SP>> \o NatToString(i) \o <<SP, SP>> \o history[i] \o <<NL>>
             \o HistoryLines(history, i + 1)

\* One of the modes -r, -w, -a of executeHistory: fileOp is the manager's
\* result, failure the text after the path when it did not succeed.
HistoryFileMode(r, args, flag, fileOp, failure, hasStream) ==
    IF Len(args) < 2
    THEN writeOutput(r, Str_historyPrefix \o flag \o Str_optionRequires, hasStream)
    ELSE LET after == [r EXCEPT !.w = fileOp.w]
         IN  IF ~fileOp.success
             THEN writeOutput(after, Str_historyPrefix \o args[2] \o failure, hasStream)
             ELSE EndIfStream(after, hasStream)

\* executeHistory(args, outputStream, historyManager).
executeHistory(r, args, hasStream) ==
    LET flag == IF Len(args) > 0 THEN args[1] ELSE null
        path == IF Len(args) > 1 THEN args[2] ELSE null
    IN  IF flag = Str_flagR
        THEN HistoryFileMode(r, args, flag, readFromFile(r.w, path),
                             Str_noSuchFile, hasStream)
        ELSE IF flag = Str_flagW
        THEN HistoryFileMode(r, args, flag, writeToFile(r.w, path),
                             Str_cannotWrite, hasStream)
        ELSE IF flag = Str_flagA
        THEN HistoryFileMode(r, args, flag, appendToFile(r.w, path),
                             Str_cannotWrite, hasStream)
        ELSE LET history == getHistory(r.w)
                 n == IF flag # null THEN ParsePositiveInt(flag) ELSE 0
                 numToShow == IF n > 0 THEN n ELSE Len(history)
                 startIndex == IF Len(history) - numToShow > 0
                               THEN Len(history) - numToShow ELSE 0
             IN  writeOutput(r, HistoryLines(history, startIndex + 1), hasStream)

\* executeBuiltin(command, args, inputStream, outputStream, historyManager),
\* but for the inputStream.resume() of its first lines, which the caller's
\* model applies to the stream (ResumeInput).
executeBuiltin(w, command, args, hasStream) ==
    LET r == [w |-> w, ops |-> <<>>]
    IN  IF command = Str_echo THEN executeEcho(r, args, hasStream)
        ELSE IF command = Str_pwd THEN executePwd(r, args, hasStream)
        ELSE IF command = Str_cd THEN executeCd(r, args, hasStream)
        ELSE IF command = Str_type THEN executeType(r, args, hasStream)
        ELSE IF command = Str_history THEN executeHistory(r, args, hasStream)
        ELSE r

----------------------------------------------------------------------------
(* executeSingleCommand: the synchronous part.  spawnFails says whether the   *)
(* operating system refuses to start the program (the child then emits        *)
(* `error`, and afterwards `close`).                                          *)

Str_spawnMessage == <<"s", "p", "a", "w", "n", " ", "E", "A", "C", "C", "E", "S">>

\* The locals of a call that returned at "command not found".
SingleNone ==
    [childProcess |-> "none", stdioConfig |-> <<"inherit", "inherit", "inherit">>,
     writeStream |-> "none", redirectFile |-> null, redirectFd |-> 1,
     isAppend |-> FALSE, processClosed |-> FALSE, streamFinished |-> FALSE]

\* fs.writeFileSync(redirectFile, "") inside try/catch.
PreTruncate(w, info) ==
    IF info.redirectFd = 2 /\ ~info.isAppend /\ CanWrite(w, info.redirectFile)
    THEN [w EXCEPT !.files = FileTruncate(@, info.redirectFile)]
    ELSE w

\* fs.createWriteStream(redirectFile, streamOptions): the file as the open
\* leaves it (an open that fails leaves it alone and the stream emits `error`).
OpenWriteStream(w, info) ==
    IF ~CanWrite(w, info.redirectFile) THEN w
    ELSE IF info.isAppend
    THEN [w EXCEPT !.files = FileAppend(@, info.redirectFile, <<>>)]
    ELSE [w EXCEPT !.files = FileTruncate(@, info.redirectFile)]

\* executeSingleCommand(command, args, redirectionInfo, onComplete) up to its
\* return: the world, the rl.prompt() calls made, and the locals the event
\* handlers close over.
executeSingleCommand(w, command, args, info, spawnFails) ==
    IF findCommandInPath(command) = null
    THEN [w |-> [w EXCEPT !.stdout = @ \o command \o Str_commandNotFound \o <<NL>>],
          prompts |-> 1, single |-> SingleNone]
    ELSE LET redirected == info.hasRedirection /\ info.redirectFile # null
             w1 == IF redirected THEN OpenWriteStream(PreTruncate(w, info), info) ELSE w
             stdioConfig ==
                 IF redirected /\ info.redirectFd = 1
                 THEN <<"inherit", "pipe", "inherit">>
                 ELSE IF redirected /\ info.redirectFd = 2
                 THEN <<"inherit", "inherit", "pipe">>
                 ELSE <<"inherit", "inherit", "inherit">>
         IN  [w |-> w1, prompts |-> 0,
              single |->
                  [childProcess |-> IF spawnFails THEN "spawnFailed" ELSE "spawned",
                   stdioConfig |-> stdioConfig,
                   writeStream |-> IF ~redirected THEN "none"
                                   ELSE IF CanWrite(w, info.redirectFile) THEN "open"
                                   ELSE "failing",
                   redirectFile |-> info.redirectFile,
                   redirectFd |-> info.redirectFd,
                   isAppend |-> info.isAppend,
                   processClosed |-> FALSE,
                   streamFinished |-> ~redirected]]

\* maybeComplete() without its wait for the write stream.
CompleteOnProcessClosed(sg) == IF sg.processClosed THEN 1 ELSE 0

\* maybeComplete(): the number of onComplete() calls it makes.
maybeComplete(sg) == IF sg.processClosed /\ sg.streamFinished THEN 1 ELSE 0

----------------------------------------------------------------------------
(* executePipeline: the synchronous part                                      *)

\* A fresh channel between two stages: a PassThrough or a child's stdout.
NewStream(kind) ==
    [kind |-> kind, data |-> <<>>, ended |-> FALSE, ends |-> 0,
     writeAfterEnd |-> FALSE, flowing |-> FALSE]

\* Writable.write and Writable.end applied to a stream, one operation.
ApplyOp(stream, o) ==
    IF o.op = "end"
    THEN [stream EXCEPT !.ended = TRUE, !.ends = @ + 1]
    ELSE IF stream.ended
    THEN [stream EXCEPT !.writeAfterEnd = TRUE]
    ELSE [stream EXCEPT !.data = @ \o o.data]

RECURSIVE ApplyOps(_, _)
ApplyOps(stream, ops) ==
    IF ops = <<>> THEN stream ELSE ApplyOps(ApplyOp(stream, Head(ops)), Tail(ops))

\* inputStream.resume() behind `if (inputStream)`, the first lines of
\* executeBuiltin: streams[i - 1] starts flowing when it exists.
ResumeInput(streams, i) ==
    IF i > 1 /\ i - 1 <= Len(streams)
    THEN [streams EXCEPT ![i - 1].flowing = TRUE]
    ELSE streams

\* The builtin branch of the loop body for stage i.
PipelineBuiltin(cmds, i, st) ==
    LET command == cmds[i][1]
        args == Tail(cmds[i])
        isLastCommand == i = Len(cmds)
        inputStream == IF i > 1 /\ i - 1 <= Len(st.streams) THEN i - 1 ELSE 0
        pushed == IF ~isLastCommand
                  THEN Append(st.streams, NewStream("PassThrough")) ELSE st.streams
        out == Len(pushed)
        resumed == ResumeInput(pushed, i)
        r == executeBuiltin(st.w, command, args, ~isLastCommand)
    IN  [st EXCEPT
            !.w = r.w,
            !.streams = IF ~isLastCommand
                        THEN [resumed EXCEPT ![out] = ApplyOps(@, r.ops)]
                        ELSE resumed,
            !.processes = Append(@, [isBuiltin |-> TRUE, state |-> "resolved",
                                     stdioConfig |-> <<>>,
                                     input |-> inputStream,
                                     output |-> IF ~isLastCommand THEN out ELSE 0,
                                     channels |-> Len(pushed)])]

\* stdioConfig with a middle stage's stdout left on the terminal.
StdioConfigMiddleInherit(isFirstCommand, isLastCommand) ==
    IF isFirstCommand THEN <<"inherit", "pipe", "inherit">>
    ELSE <<"pipe", "inherit", "inherit">>

\* stdioConfig by the stage's position.
StdioConfig(isFirstCommand, isLastCommand) ==
    IF isFirstCommand THEN <<"inherit", "pipe", "inherit">>
    ELSE IF isLastCommand THEN <<"pipe", "inherit", "inherit">>
    ELSE <<"pipe", "pipe", "inherit">>

\* `if (i > 0 && childProcess.stdin)`: the index in streams of the channel
\* piped into the child's stdin, 0 for none. After an internal stage it is
\* streams[i - 1]; after an external one it is that child's own stdout.
PipedInto(st, i, stdioConfig) ==
    IF i > 1 /\ stdioConfig[1] = "pipe"
    THEN IF st.processes[i - 1].isBuiltin THEN i - 1
         ELSE IF st.processes[i - 1].stdioConfig[2] = "pipe"
         THEN st.processes[i - 1].output
         ELSE 0
    ELSE 0

\* The external branch of the loop body for stage i.
PipelineExternal(cmds, i, st, spawnFails) ==
    LET command == cmds[i][1]
        isFirstCommand == i = 1
        isLastCommand == i = Len(cmds)
        stdioConfig == StdioConfig(isFirstCommand, isLastCommand)
    IN  IF findCommandInPath(command) = null
        THEN [st EXCEPT !.w.stdout = @ \o command \o Str_commandNotFound \o <<NL>>,
                        !.prompts = @ + 1,
                        !.returned = TRUE]
        ELSE LET source == PipedInto(st, i, stdioConfig)
                 piped ==
                     IF source >= 1 /\ source <= Len(st.streams)
                     THEN [st.streams EXCEPT ![source].flowing = TRUE]
                     ELSE st.streams
                 saved == ~isLastCommand /\ stdioConfig[2] = "pipe"
             IN  [st EXCEPT
                    !.streams = IF saved
                                THEN Append(piped, NewStream("stdout")) ELSE piped,
                    !.processes =
                        Append(@, [isBuiltin |-> FALSE,
                                   state |-> IF i \in spawnFails
                                             THEN "spawnFailed" ELSE "spawned",
                                   stdioConfig |-> stdioConfig,
                                   input |-> source,
                                   output |-> IF saved THEN Len(piped) + 1 ELSE 0,
                                   channels |-> IF saved THEN Len(piped) + 1
                                                ELSE Len(piped)])]

\* The for-loop from stage i on.
RECURSIVE PipelineLoop(_, _, _, _)
PipelineLoop(cmds, i, st, spawnFails) ==
    IF i > Len(cmds) \/ st.returned THEN st
    ELSE PipelineLoop(cmds, i + 1,
             IF isBuiltin(cmds[i][1])
             THEN PipelineBuiltin(cmds, i, st)
             ELSE PipelineExternal(cmds, i, st, spawnFails),
             spawnFails)

\* The locals of executePipeline when no pipeline runs.
PipeNone ==
    [commands |-> <<>>, processes |-> <<>>, streams |-> <<>>,
     completedCount |-> 0, totalProcesses |-> 0, attached |-> FALSE]

\* executePipeline(commands, historyManager, onComplete) up to its return.
executePipeline(w, cmds, spawnFails) ==
    IF Len(cmds) = 0
    THEN [w |-> w, prompts |-> 1, pipe |-> PipeNone]
    ELSE LET st == PipelineLoop(cmds, 1,
                       [w |-> w, processes |-> <<>>, streams |-> <<>>,
                        prompts |-> 0, returned |-> FALSE], spawnFails)
         IN  [w |-> st.w, prompts |-> st.prompts,
              pipe |-> [commands |-> cmds, processes |-> st.processes,
                        streams |-> st.streams, completedCount |-> 0,
                        totalProcesses |-> IF st.returned THEN 0 ELSE Len(st.processes),
                        attached |-> ~st.returned]]

\* checkCompletion() with the count compared by >= instead of ===.
checkCompletionAtLeast(pp, calls) ==
    [pipe |-> [pp EXCEPT !.completedCount = @ + 1],
     prompts |-> IF pp.completedCount + 1 >= pp.totalProcesses
                 THEN calls + 1 ELSE calls]

\* checkCompletion(): counts one signal; prompts is the number of
\* onComplete() calls so far.
checkCompletion(pp, calls) ==
    [pipe |-> [pp EXCEPT !.completedCount = @ + 1],
     prompts |-> IF pp.completedCount + 1 = pp.totalProcesses
                 THEN calls + 1 ELSE calls]

----------------------------------------------------------------------------
(* The readline `line` handler                                                *)

\* What the handler leaves behind when it returns.
Outcome(m, w, n, pp, sg, pr) ==
    [mode |-> m, world |-> w, prompts |-> n, pipe |-> pp, single |-> sg,
     promise |-> pr]

\* rl.prompt(); return.
Reprompt(w) == Outcome("prompted", w, 1, PipeNone, SingleNone, "none")

\* console.log of each line in turn.
RECURSIVE ConsoleLog(_, _)
ConsoleLog(w, printed) ==
    IF printed = <<>> THEN w
    ELSE ConsoleLog([w EXCEPT !.stdout = @ \o Head(printed) \o <<NL>>], Tail(printed))

\* tokens.includes("|").
Includes(toks, tok) == \E k \in 1..Len(toks) : toks[k] = tok

\* handleExit() without either appendToFile.
handleExitNoFlush(w) == w

\* handleExit(): appendToFile, then rl.close(), whose `close` handler appends
\* again and exits the process.
handleExit(w) == appendToFile(appendToFile(w, HISTFILE).w, HISTFILE).w

\* The pipeline branch of the handler.
RoutePipeline(w, tokens, spawnFails) ==
    LET parsed == parsePipeline(tokens)
        w1 == ConsoleLog(w, parsed.printed)
    IN  IF Len(parsed.commands) = 0
        THEN Reprompt(w1)
        ELSE LET e == executePipeline(w1, parsed.commands, spawnFails)
             IN  Outcome("pipeline", e.w, e.prompts, e.pipe, SingleNone, "none")

\* The single-command branch of the handler.
RouteSingle(w, tokens, spawnFails) ==
    LET red == parseRedirection(tokens)
        commandTokens == red.commandTokens
    IN  IF Len(commandTokens) = 0
        THEN Reprompt(w)
        ELSE LET command == commandTokens[1]
                 args == Tail(commandTokens)
             IN  IF isBuiltin(command)
                 THEN Outcome("builtin", executeBuiltin(w, command, args, FALSE).w,
                              0, PipeNone, SingleNone, "resolved")
                 ELSE LET e == executeSingleCommand(w, command, args, red,
                                                    1 \in spawnFails)
                      IN  Outcome("single", e.w, e.prompts, PipeNone, e.single, "none")

\* The handler with addCommand moved behind the execution of the line.
lineHandlerAddLast(w, l, spawnFails) ==
    LET trimmed == Trim(l)
        tokens == parseCommandLine(trimmed)
        o == IF trimmed = Str_exit
             THEN Outcome("exited", handleExit(w), 0, PipeNone, SingleNone, "none")
             ELSE IF Len(tokens) = 0
             THEN Reprompt(w)
             ELSE IF Includes(tokens, Str_pipe)
             THEN RoutePipeline(w, tokens, spawnFails)
             ELSE RouteSingle(w, tokens, spawnFails)
    IN  IF Len(trimmed) = 0
        THEN Reprompt(w)
        ELSE [o EXCEPT !.world = addCommand(@, trimmed)]

\* rl.on("line", (line) => ...): the handler up to its return.
lineHandler(w, l, spawnFails) ==
    LET trimmed == Trim(l)
    IN  IF Len(trimmed) = 0
        THEN Reprompt(w)
        ELSE LET w1 == addCommand(w, trimmed)
                 tokens == parseCommandLine(trimmed)
             IN  IF trimmed = Str_exit
                 THEN Outcome("exited", handleExit(w1), 0, PipeNone, SingleNone, "none")
                 ELSE IF Len(tokens) = 0
                 THEN Reprompt(w1)
                 ELSE IF Includes(tokens, Str_pipe)
                 THEN RoutePipeline(w1, tokens, spawnFails)
                 ELSE RouteSingle(w1, tokens, spawnFails)

----------------------------------------------------------------------------
(* The lines the shell specification enters                                   *)

\* Most stages a line of the specification has.
MaxStages == 3

Line_echoA == <<"e", "c", "h", "o", " ", "a">>
Line_escapedPipe == <<"e", "c", "h", "o", " ", "a", " ", "\\", "|", " ", "w", "c", " ", "-", "c">>
Line_echoToF == <<"e", "c", "h", "o", " ", "f", "o", "o", " ", ">", " ", "F">>
Line_echoAppendG == <<"e", "c", "h", "o", " ", "f", "o", "o", " ", ">", ">", " ", "G">>
Line_echoSplitFd == <<"e", "c", "h", "o", " ", "f", "o", "o", " ", "1", " ", ">", " ", "F">>
Line_catToF == <<"c", "a", "t", " ", ">", " ", "F">>
Line_catAppendG == <<"c", "a", "t", " ", ">", ">", " ", "G">>
Line_catErrToF == <<"c", "a", "t", " ", "2", ">", " ", "F">>
Line_catToBad == <<"c", "a", "t", " ", ">", " ", "/", "n", "/", "f">>
Line_catNoTarget == <<"c", "a", "t", " ", ">">>
Line_nopeToF == <<"n", "o", "p", "e", " ", ">", " ", "F">>
Line_pipeFirst == <<"|", " ", "c", "a", "t">>
Line_pipeLast == <<"c", "a", "t", " ", "|">>
Line_blank == <<" ", " ", "\t">>
Line_emptyQuotes == <<"'", "'">>
Line_exitArg == <<"e", "x", "i", "t", " ", "0">>
Line_echoToFPipeCat == <<"e", "c", "h", "o", " ", "a", " ", ">", " ", "F", " ", "|", " ", "c", "a", "t">>

\* Most tokens in a list handed to the two parsers.
MaxTokens == 5

TokenLists(alphabet, n) == UNION {[1..k -> alphabet] : k \in 0..n}

\* The lines of up to MaxTokens tokens, each a pipe or `cat`, joined by spaces.
PipeLines == {Join(ts, <<SP>>) : ts \in TokenLists({Str_pipe, Str_cat}, MaxTokens)}

\* The text of one stage of a generated pipeline line.
StageTexts == {Line_echoA, Str_exit, Str_cat, Str_nope}

\* The lines of exactly n stages, joined by " | ".
RECURSIVE PipelineLines(_)
PipelineLines(n) ==
    IF n = 1 THEN StageTexts
    ELSE {l \o <<SP, "|", SP>> \o t : l \in PipelineLines(n - 1), t \in StageTexts}

Line_cd == <<"c", "d">>
Line_cdHome == <<"c", "d", " ", "/", "h">>
Line_cdMissing == <<"c", "d", " ", "/", "x">>
Line_cdFile == <<"c", "d", " ", "G">>
Line_cdTilde == <<"c", "d", " ", "~">>
Line_cdTildeSub == <<"c", "d", " ", "~", "/", "x">>
Line_cdEmpty == <<"c", "d", " ", "'", "'">>
Line_type == <<"t", "y", "p", "e">>
Line_typeCat == <<"t", "y", "p", "e", " ", "c", "a", "t">>
Line_typeNope == <<"t", "y", "p", "e", " ", "n", "o", "p", "e">>
Line_typeCd == <<"t", "y", "p", "e", " ", "c", "d">>
Line_history == <<"h", "i", "s", "t", "o", "r", "y">>
Line_history1 == <<"h", "i", "s", "t", "o", "r", "y", " ", "1">>
Line_history5 == <<"h", "i", "s", "t", "o", "r", "y", " ", "5">>
Line_historyR == <<"h", "i", "s", "t", "o", "r", "y", " ", "-", "r">>
Line_historyRF == <<"h", "i", "s", "t", "o", "r", "y", " ", "-", "r", " ", "F">>
Line_historyRG == <<"h", "i", "s", "t", "o", "r", "y", " ", "-", "r", " ", "G">>
Line_historyWF == <<"h", "i", "s", "t", "o", "r", "y", " ", "-", "w", " ", "F">>
Line_historyWBad == <<"h", "i", "s", "t", "o", "r", "y", " ", "-", "w", " ", "/", "n", "/", "f">>
Line_historyAF == <<"h", "i", "s", "t", "o", "r", "y", " ", "-", "a", " ", "F">>
Line_historyABad == <<"h", "i", "s", "t", "o", "r", "y", " ", "-", "a", " ", "/", "n", "/", "f">>

\* Lines whose head token is an internal command; the specification enters
\* each alone and as the first stage of a pipeline into `cat`.
BuiltinTexts ==
    {Line_echoA, Line_exitArg, Str_pwd,
     Line_cd, Line_cdHome, Line_cdMissing, Line_cdFile, Line_cdTilde,
     Line_cdTildeSub, Line_cdEmpty, Line_type, Line_typeCat, Line_typeNope,
     Line_typeCd, Line_history, Line_history1, Line_history5,
     Line_historyR, Line_historyRF, Line_historyRG, Line_historyWF,
     Line_historyWBad, Line_historyAF, Line_historyABad}

Lines ==
    UNION {PipelineLines(n) : n \in 1..MaxStages}
    \cup PipeLines
    \cup BuiltinTexts
    \cup {t \o <<SP, "|", SP>> \o Str_cat : t \in BuiltinTexts}
    \cup {<<>>, Line_blank, Line_emptyQuotes,
          Line_escapedPipe, Line_echoToF, Line_echoAppendG, Line_echoSplitFd,
          Line_catToF, Line_catAppendG, Line_catErrToF, Line_catToBad,
          Line_catNoTarget, Line_nopeToF, Line_pipeFirst, Line_pipeLast,
          Line_echoToFPipeCat}

----------------------------------------------------------------------------
(* The tokenizer run one loop iteration at a time *)

\* The shell's variables while only the tokenizer is run.
ShellOff ==
    /\ line = <<>>
    /\ mode = "off"
    /\ prompts = 0
    /\ world = <<>>
    /\ pipe = PipeNone
    /\ single = SingleNone
    /\ promise = "none"

\* No line was handled while a command was running.
OverlapNone == [line |-> <<>>, mode |-> "none", pending |-> FALSE]

\* let lastTabInput = null; nothing typed, Tab not pressed.
TabNone ==
    [lastTabInput |-> null, buffer |-> <<>>, event |-> "none",
     listed |-> FALSE, completions |-> <<>>, matches |-> <<>>, bell |-> FALSE,
     press |-> 0, streak |-> 0]

\* findLongestCommonPrefix is not being called.
LcpNone ==
    [string |-> <<>>, i |-> 0, prefix |-> <<>>, pc |-> "none", result |-> <<>>]

\* The line editor's variables while the editor is not exercised.
ReplOff ==
    /\ overlap = OverlapNone
    /\ tab = TabNone
    /\ lcp = LcpNone

\* No call on the history manager yet.
CallNone ==
    [op |-> "none", args |-> <<>>, success |-> FALSE,
     previous |-> <<"none", <<>>, FALSE>>, history |-> <<>>,
     lastSavedIndex |-> 0, content |-> <<>>, ops |-> <<>>]

\* The plan variables while no token list is being parsed on its own, and the
\* call record while the history manager is not called on its own.
PlanOff ==
    /\ tokenList = <<>>
    /\ plan = <<>>
    /\ planpc = "off"
    /\ call = CallNone

ParseInit ==
    /\ input \in StringsUpTo(MaxLen)
    /\ lex = LexInit
    /\ lexpc = "loop"
    /\ ShellOff
    /\ PlanOff
    /\ ReplOff

ParseLoop ==
    /\ lexpc = "loop"
    /\ lex.i <= Len(input)
    /\ lex' = LexStep(input, lex)
    /\ UNCHANGED <<input, lexpc>>
    /\ UNCHANGED shellVars
    /\ UNCHANGED planVars
    /\ UNCHANGED historyVars
    /\ UNCHANGED replVars

ParseReturn ==
    /\ lexpc = "loop"
    /\ lex.i > Len(input)
    /\ lex' = [lex EXCEPT !.tokens = LexReturn(lex)]
    /\ lexpc' = "done"
    /\ UNCHANGED input
    /\ UNCHANGED shellVars
    /\ UNCHANGED planVars
    /\ UNCHANGED historyVars
    /\ UNCHANGED replVars

ParseNext == ParseLoop \/ ParseReturn

SpecParse == ParseInit /\ [][ParseNext]_vars

\* The tokenizer is synchronous code: once called, its loop keeps running.
SpecParseLive == ParseInit /\ [][ParseNext]_vars /\ WF_vars(ParseNext)

----------------------------------------------------------------------------
(* parsePipeline and parseRedirection called on a token list *)

\* The tokens parsePipeline tells apart: the pipe, and words.
PipelineTokens == {Str_pipe, <<"a">>, <<"b">>}

\* The tokens parseRedirection tells apart: the six operators, the two
\* descriptor digits, and a word.
RedirectionTokens ==
    {Str_gt, Str_gtgt, Str_1gt, Str_1gtgt, Str_2gt, Str_2gtgt, Str_1, Str_2, <<"a">>}

PlanInit ==
    /\ tokenList \in TokenLists(PipelineTokens, MaxTokens)
                     \cup TokenLists(RedirectionTokens, MaxTokens)
    /\ plan = <<>>
    /\ planpc = "start"
    /\ call = CallNone
    /\ ReplOff
    /\ input = <<>>
    /\ lex = LexInit
    /\ lexpc = "off"
    /\ ShellOff

\* const commands = parsePipeline(tokens).
SplitPipeline ==
    /\ planpc = "start"
    /\ plan' = parsePipeline(tokenList)
    /\ planpc' = "split"
    /\ UNCHANGED tokenList
    /\ UNCHANGED parseVars
    /\ UNCHANGED shellVars
    /\ UNCHANGED historyVars
    /\ UNCHANGED replVars

\* const {...} = parseRedirection(tokens).
ExtractRedirection ==
    /\ planpc = "start"
    /\ plan' = parseRedirection(tokenList)
    /\ planpc' = "extracted"
    /\ UNCHANGED tokenList
    /\ UNCHANGED parseVars
    /\ UNCHANGED shellVars
    /\ UNCHANGED historyVars
    /\ UNCHANGED replVars

PlanNext == SplitPipeline \/ ExtractRedirection

SpecPlan == PlanInit /\ [][PlanNext]_vars

----------------------------------------------------------------------------
(* The shell handling one input line: the handler, then the events of the     *)
(* command it started                                                         *)

\* The process state when the first prompt is printed: history loaded from
\* HISTFILE by the startup readFromFile.
InitialWorld(home) ==
    readFromFile([stdout |-> <<>>, stderr |-> <<>>, files |-> InitialFiles,
                  history |-> <<>>, lastSavedIndex |-> 0,
                  cwd |-> Str_root, home |-> home], HISTFILE).w

Init ==
    /\ input = <<>>
    /\ lex = LexInit
    /\ lexpc = "off"
    /\ line = <<>>
    /\ mode = "idle"
    /\ prompts = 0
    /\ world \in {InitialWorld(h) : h \in {Str_home, null}}
    /\ pipe = PipeNone
    /\ single = SingleNone
    /\ promise = "none"
    /\ PlanOff
    /\ ReplOff

\* The `line` event: the whole handler runs.
HandleLine ==
    /\ mode = "idle"
    /\ \E l \in Lines, spawnFails \in SUBSET (1..MaxStages) :
          \E o \in {lineHandler(world, l, spawnFails)} :
              /\ line' = l
              /\ mode' = o.mode
              /\ prompts' = o.prompts
              /\ world' = o.world
              /\ pipe' = o.pipe
              /\ single' = o.single
              /\ promise' = o.promise
    /\ UNCHANGED parseVars
    /\ UNCHANGED planVars
    /\ UNCHANGED historyVars
    /\ UNCHANGED replVars

\* executeBuiltin(...).then(() => rl.prompt()) of the single-command branch.
BuiltinThen ==
    /\ mode = "builtin"
    /\ promise = "resolved"
    /\ promise' = "notified"
    /\ prompts' = prompts + 1
    /\ UNCHANGED <<line, mode, world, pipe, single>>
    /\ UNCHANGED parseVars
    /\ UNCHANGED planVars
    /\ UNCHANGED historyVars
    /\ UNCHANGED replVars

\* childProcess.on("error") of executeSingleCommand: the spawn failed.
SingleChildError ==
    /\ mode = "single"
    /\ single.childProcess = "spawnFailed"
    /\ single' = [single EXCEPT
                     !.childProcess = "errored",
                     !.writeStream = IF @ \in {"open", "ending"} THEN "destroyed" ELSE @]
    /\ world' = [world EXCEPT !.stderr = @ \o Str_ErrorPrefix \o Str_spawnMessage
                                            \o <<NL>>]
    /\ prompts' = prompts + 1
    /\ UNCHANGED <<line, mode, pipe, promise>>
    /\ UNCHANGED parseVars
    /\ UNCHANGED planVars
    /\ UNCHANGED historyVars
    /\ UNCHANGED replVars

\* The child has written its output on descriptors 1 and 2 and exits: what
\* went to an inherited descriptor is on the shell's terminal, the piped
\* descriptor reaches end-of-stream, and the pipe() into the write stream ends
\* that stream.
SingleChildExit ==
    /\ mode = "single"
    /\ single.childProcess = "spawned"
    /\ single' = [single EXCEPT
                     !.childProcess = "exited",
                     !.writeStream = IF @ = "open" THEN "ending" ELSE @]
    /\ world' = [world EXCEPT
                    !.stdout = IF single.stdioConfig[2] = "inherit"
                               THEN @ \o Str_childOutput ELSE @,
                    !.stderr = IF single.stdioConfig[3] = "inherit"
                               THEN @ \o Str_childOutput ELSE @]
    /\ UNCHANGED <<line, mode, prompts, pipe, promise>>
    /\ UNCHANGED parseVars
    /\ UNCHANGED planVars
    /\ UNCHANGED historyVars
    /\ UNCHANGED replVars

\* childProcess.on("close") of executeSingleCommand.
SingleChildClose ==
    /\ mode = "single"
    /\ single.childProcess \in {"exited", "errored"}
    /\ LET sg == [single EXCEPT !.childProcess = "closed", !.processClosed = TRUE]
       IN  /\ single' = sg
           /\ prompts' = prompts + maybeComplete(sg)
    /\ UNCHANGED <<line, mode, world, pipe, promise>>
    /\ UNCHANGED parseVars
    /\ UNCHANGED planVars
    /\ UNCHANGED historyVars
    /\ UNCHANGED replVars

\* writeStream.on("finish"): the captured output is in the file.
WriteFinish ==
    /\ mode = "single"
    /\ single.writeStream = "ending"
    /\ LET sg == [single EXCEPT !.writeStream = "finished", !.streamFinished = TRUE]
       IN  /\ single' = sg
           /\ prompts' = prompts + maybeComplete(sg)
    /\ world' = [world EXCEPT
                    !.files = FileAppend(@, single.redirectFile, Str_childOutput)]
    /\ UNCHANGED <<line, mode, pipe, promise>>
    /\ UNCHANGED parseVars
    /\ UNCHANGED planVars
    /\ UNCHANGED historyVars
    /\ UNCHANGED replVars

\* writeStream.on("error"): the file could not be opened.
WriteError ==
    /\ mode = "single"
    /\ single.writeStream = "failing"
    /\ LET sg == [single EXCEPT !.writeStream = "errored", !.streamFinished = TRUE]
       IN  /\ single' = sg
           /\ prompts' = prompts + maybeComplete(sg)
    /\ UNCHANGED <<line, mode, world, pipe, promise>>
    /\ UNCHANGED parseVars
    /\ UNCHANGED planVars
    /\ UNCHANGED historyVars
    /\ UNCHANGED replVars

\* Stage i of the running pipeline was started.
Started(i) == mode = "pipeline" /\ i \in 1..Len(pipe.processes)

\* entry.promise.then(checkCompletion) for the builtin stage i.
PipePromiseThen(i) ==
    /\ Started(i)
    /\ pipe.attached
    /\ pipe.processes[i].isBuiltin
    /\ pipe.processes[i].state = "resolved"
    /\ LET c == checkCompletion([pipe EXCEPT !.processes[i].state = "notified"], prompts)
       IN  /\ pipe' = c.pipe
           /\ prompts' = c.prompts
    /\ UNCHANGED <<line, mode, world, single, promise>>
    /\ UNCHANGED parseVars
    /\ UNCHANGED planVars
    /\ UNCHANGED historyVars
    /\ UNCHANGED replVars

\* The stdout of child i reaches end-of-stream when the child is gone.
EndChildStdout(pp, i) ==
    IF i <= Len(pp.streams) /\ pp.streams[i].kind = "stdout"
    THEN [pp EXCEPT !.streams[i].ended = TRUE]
    ELSE pp

\* The `error` event of child i, whose spawn failed: with the handlers
\* attached it prints and calls checkCompletion; with no listener (the
\* function returned at "command not found") the event is an uncaught
\* exception.
PipeChildError(i) ==
    /\ Started(i)
    /\ ~pipe.processes[i].isBuiltin
    /\ pipe.processes[i].state = "spawnFailed"
    /\ LET pp == EndChildStdout([pipe EXCEPT !.processes[i].state = "errored"], i)
           c == checkCompletion(pp, prompts)
       IN  IF pipe.attached
           THEN /\ pipe' = c.pipe
                /\ prompts' = c.prompts
                /\ world' = [world EXCEPT !.stderr = @ \o Str_ErrorPrefix
                                                        \o Str_spawnMessage \o <<NL>>]
                /\ mode' = mode
           ELSE /\ pipe' = pp
                /\ prompts' = prompts
                /\ world' = world
                /\ mode' = "crashed"
    /\ UNCHANGED <<line, single, promise>>
    /\ UNCHANGED parseVars
    /\ UNCHANGED planVars
    /\ UNCHANGED historyVars
    /\ UNCHANGED replVars

\* The standard input of stage i is inherited, or has reached end-of-stream.
StdinDone(i) ==
    IF i = 1 THEN TRUE
    ELSE IF i - 1 <= Len(pipe.streams) THEN pipe.streams[i - 1].ended
    ELSE FALSE

\* The piped standard output of stage i, if any, is being read.
StdoutDrained(i) ==
    IF i > Len(pipe.streams) THEN TRUE ELSE pipe.streams[i].flowing

\* The `close` event of child i: entry.process.on("close", checkCompletion).
ChildCloses(i) ==
    /\ LET pp == EndChildStdout([pipe EXCEPT !.processes[i].state = "closed"], i)
           c == checkCompletion(pp, prompts)
       IN  IF pipe.attached
           THEN pipe' = c.pipe /\ prompts' = c.prompts
           ELSE pipe' = pp /\ prompts' = prompts
    /\ UNCHANGED <<line, mode, world, single, promise>>
    /\ UNCHANGED parseVars
    /\ UNCHANGED planVars
    /\ UNCHANGED historyVars
    /\ UNCHANGED replVars

\* Child i ends once its input is at end-of-stream and its output is read, or
\* after its failed spawn.
PipeChildClose(i) ==
    /\ Started(i)
    /\ ~pipe.processes[i].isBuiltin
    /\ IF pipe.processes[i].state = "spawned"
       THEN StdinDone(i) /\ StdoutDrained(i)
       ELSE pipe.processes[i].state = "errored"
    /\ ChildCloses(i)

\* Child i ends on its own before its input does.
PipeChildCloseEarly(i) ==
    /\ Started(i)
    /\ ~pipe.processes[i].isBuiltin
    /\ pipe.processes[i].state = "spawned"
    /\ ~(StdinDone(i) /\ StdoutDrained(i))
    /\ ChildCloses(i)

\* rl.on("close"): the terminal's end of input.  The handler appends the
\* history to HISTFILE and calls process.exit(0), whatever is still running.
EndOfInput ==
    /\ mode \in {"idle", "prompted", "builtin", "single", "pipeline"}
    /\ world' = appendToFile(world, HISTFILE).w
    /\ mode' = "exited"
    /\ UNCHANGED <<line, prompts, pipe, single, promise>>
    /\ UNCHANGED parseVars
    /\ UNCHANGED planVars
    /\ UNCHANGED historyVars
    /\ UNCHANGED replVars

Next ==
    \/ HandleLine
    \/ EndOfInput
    \/ BuiltinThen
    \/ SingleChildError
    \/ SingleChildExit
    \/ SingleChildClose
    \/ WriteFinish
    \/ WriteError
    \/ \E i \in 1..MaxStages : PipePromiseThen(i)
    \/ \E i \in 1..MaxStages : PipeChildError(i)
    \/ \E i \in 1..MaxStages : PipeChildClose(i)
    \/ \E i \in 1..MaxStages : PipeChildCloseEarly(i)

Spec == Init /\ [][Next]_vars

\* executePipeline called on its own with a plan of 1..MaxStages stages.
StageCommands == {parseCommandLine(t) : t \in StageTexts}

Plans == UNION {[1..n -> StageCommands] : n \in 1..MaxStages}

\* executePipeline(commands, historyManager, onComplete): the call up to its
\* return.
CallPipeline ==
    /\ mode = "idle"
    /\ \E cmds \in Plans, spawnFails \in SUBSET (1..MaxStages) :
          \E e \in {executePipeline(world, cmds, spawnFails)} :
              /\ mode' = "pipeline"
              /\ prompts' = e.prompts
              /\ world' = e.w
              /\ pipe' = e.pipe
    /\ UNCHANGED <<line, single, promise>>
    /\ UNCHANGED parseVars
    /\ UNCHANGED planVars
    /\ UNCHANGED historyVars
    /\ UNCHANGED replVars

PipelineNext ==
    \/ CallPipeline
    \/ \E i \in 1..MaxStages : PipePromiseThen(i)
    \/ \E i \in 1..MaxStages : PipeChildError(i)
    \/ \E i \in 1..MaxStages : PipeChildClose(i)
    \/ \E i \in 1..MaxStages : PipeChildCloseEarly(i)

SpecPipeline == Init /\ [][PipelineNext]_vars

\* The event loop runs every callback that is ready, and a child whose input
\* has ended (or is the terminal's) and whose output is read ends; a child
\* is not bound to end before that, nor a spawn to fail.
Fairness ==
    /\ WF_vars(BuiltinThen)
    /\ WF_vars(SingleChildError)
    /\ WF_vars(SingleChildExit)
    /\ WF_vars(SingleChildClose)
    /\ WF_vars(WriteFinish)
    /\ WF_vars(WriteError)
    /\ \A i \in 1..MaxStages :
          /\ WF_vars(PipePromiseThen(i))
          /\ WF_vars(PipeChildError(i))
          /\ WF_vars(PipeChildClose(i))

LiveSpec == Init /\ [][Next]_vars /\ Fairness

----------------------------------------------------------------------------
(* A second `line` event.  readline emits `line` whenever the terminal        *)
(* delivers a line; the handler has no test of whether a command is running.  *)

\* The lines delivered second.
NextLines == {Line_echoA, Str_cat, Line_blank}

\* No promise reaction or spawn error is queued: the event loop is free to
\* deliver the next terminal line.
EventLoopIdle ==
    /\ mode \in {"prompted", "single", "pipeline"}
    /\ mode = "single" => single.childProcess # "spawnFailed"
    /\ mode = "pipeline" =>
          \A i \in 1..Len(pipe.processes) :
              pipe.processes[i].state \notin {"resolved", "spawnFailed"}

\* The `line` event for a second line: the whole handler runs on the process
\* state as it is.  The record keeps the line, what the handler started, and
\* whether the first line's command had invoked its callback by then.
HandleNextLine ==
    /\ EventLoopIdle
    /\ overlap = OverlapNone
    /\ \E l \in NextLines :
          \E o \in {lineHandler(world, l, {})} :
              /\ world' = o.world
              /\ overlap' = [line |-> l, mode |-> o.mode,
                             pending |-> (mode # "prompted" /\ prompts = 0)]
    /\ UNCHANGED <<tab, lcp>>
    /\ UNCHANGED <<line, mode, prompts, pipe, single, promise>>
    /\ UNCHANGED parseVars
    /\ UNCHANGED planVars
    /\ UNCHANGED historyVars

NextWithSecondLine == Next \/ HandleNextLine

SpecSecondLine == Init /\ [][NextWithSecondLine]_vars

----------------------------------------------------------------------------
(* The history manager called on its own: addCommand, readFromFile,           *)
(* writeToFile, appendToFile, and the `history` command that calls them       *)

\* Most entries the history holds, and most lines a history file holds.
MaxHistory == 2

\* The lines entered: trimmed, non-empty, without a newline.
HistoryEntries == {<<"a">>, <<"b">>}

Str_bad == <<"/", "n", "/", "f">>
Str_blankLines == <<"a", "\n", "\n", "b">>

\* The paths handed to the manager: F holds a file or may, Str_bad is in a
\* directory that does not exist.
HistoryPaths == {Str_F, Str_bad}

\* The arguments of the `history` command: none, a count, -r PATH, -a PATH
\* (G is another file to append to).
HistoryArgs ==
    {<<>>, <<Str_1>>, <<Str_2>>}
    \cup {<<Str_flagR, path>> : path \in HistoryPaths}
    \cup {<<Str_flagA, path>> : path \in HistoryPaths \cup {Str_G}}

\* The call record: the method, its arguments, its result, and the history,
\* the marker and the content of the file named last in the arguments as they
\* were before the call; previous is the call made just before it.
Call(op, w, args, success, ops) ==
    [op |-> op, args |-> args, success |-> success,
     previous |-> <<call.op, call.args, call.success>>,
     history |-> w.history,
     lastSavedIndex |-> w.lastSavedIndex,
     content |-> IF args # <<>> /\ args[Len(args)] \in FilePaths
                 THEN w.files[args[Len(args)]] ELSE null,
     ops |-> ops]

\* The file at path holds no more than MaxHistory lines after an append.
FitsAppend(w, path) ==
    path \in FilePaths =>
        Len(NonEmptyLines(IF w.files[path] = null THEN <<>> ELSE w.files[path]))
            + (Len(w.history) - w.lastSavedIndex) <= MaxHistory

\* createHistoryManager(): empty history, marker 0; F is absent or holds two
\* entries around a blank line, without a final newline.
HistoryInit ==
    /\ input = <<>>
    /\ lex = LexInit
    /\ lexpc = "off"
    /\ line = <<>>
    /\ mode = "history"
    /\ prompts = 0
    /\ \E content \in {null, Str_blankLines} :
          world = [stdout |-> <<>>, stderr |-> <<>>,
                   files |-> [InitialFiles EXCEPT ![Str_F] = content],
                   history |-> <<>>, lastSavedIndex |-> 0,
                   cwd |-> Str_root, home |-> Str_home]
    /\ pipe = PipeNone
    /\ single = SingleNone
    /\ promise = "none"
    /\ PlanOff
    /\ ReplOff

\* historyManager.addCommand(trimmed).
AddCommand ==
    /\ mode = "history"
    /\ Len(world.history) < MaxHistory
    /\ \E command \in HistoryEntries :
          /\ world' = addCommand(world, command)
          /\ call' = Call("addCommand", world, <<command>>, TRUE, <<>>)
    /\ UNCHANGED <<line, mode, prompts, pipe, single, promise>>
    /\ UNCHANGED parseVars
    /\ UNCHANGED planVars
    /\ UNCHANGED replVars

\* historyManager.readFromFile(filePath).
ReadFromFile ==
    /\ mode = "history"
    /\ \E filePath \in HistoryPaths :
          \E o \in {readFromFile(world, filePath)} :
              /\ world' = o.w
              /\ call' = Call("readFromFile", world, <<filePath>>, o.success, <<>>)
    /\ UNCHANGED <<line, mode, prompts, pipe, single, promise>>
    /\ UNCHANGED parseVars
    /\ UNCHANGED planVars
    /\ UNCHANGED replVars

\* historyManager.writeToFile(filePath).
WriteToFile ==
    /\ mode = "history"
    /\ \E filePath \in HistoryPaths :
          \E o \in {writeToFile(world, filePath)} :
              /\ world' = o.w
              /\ call' = Call("writeToFile", world, <<filePath>>, o.success, <<>>)
    /\ UNCHANGED <<line, mode, prompts, pipe, single, promise>>
    /\ UNCHANGED parseVars
    /\ UNCHANGED planVars
    /\ UNCHANGED replVars

\* historyManager.appendToFile(filePath).
AppendToFile ==
    /\ mode = "history"
    /\ \E filePath \in HistoryPaths :
          /\ FitsAppend(world, filePath)
          /\ \E o \in {appendToFile(world, filePath)} :
                /\ world' = o.w
                /\ call' = Call("appendToFile", world, <<filePath>>, o.success, <<>>)
    /\ UNCHANGED <<line, mode, prompts, pipe, single, promise>>
    /\ UNCHANGED parseVars
    /\ UNCHANGED planVars
    /\ UNCHANGED replVars

\* executeBuiltin("history", args, null, outputStream, historyManager) with
\* a fresh output stream, as a stage of a pipeline that is not the last.  The
\* record's success says that the command ended its stream and wrote nothing
\* to it: a file operation that succeeded.
HistoryCommand ==
    /\ mode = "history"
    /\ \E args \in HistoryArgs :
          /\ Len(args) = 2 /\ args[1] = Str_flagA => FitsAppend(world, args[2])
          /\ \E r \in {executeBuiltin(world, Str_history, args, TRUE)} :
                /\ world' = r.w
                /\ call' = Call("history", world, args, r.ops = <<StreamEnd>>, r.ops)
    /\ UNCHANGED <<line, mode, prompts, pipe, single, promise>>
    /\ UNCHANGED parseVars
    /\ UNCHANGED planVars
    /\ UNCHANGED replVars

HistoryNext ==
    \/ AddCommand
    \/ ReadFromFile
    \/ WriteToFile
    \/ AppendToFile
    \/ HistoryCommand

SpecHistory == HistoryInit /\ [][HistoryNext]_vars

----------------------------------------------------------------------------
(* The tokenizer's contract, stated independently of the code *)

\* The three-state machine {Normal, InSingle, InDouble} with token buffer T:
\* k is the read position, out the tokens emitted so far.
RECURSIVE RefMachine(_, _, _, _, _)
RefMachine(str, k, state, T, out) ==
    IF k > Len(str)
    THEN IF T # <<>> THEN Append(out, T) ELSE out
    ELSE
    LET c == str[k]
        more == k < Len(str)
    IN  CASE state = "Normal" ->
               IF c = SQ THEN
                   IF more /\ str[k + 1] = SQ
                   THEN RefMachine(str, k + 2, "Normal", T, out)
                   ELSE RefMachine(str, k + 1, "InSingle", T, out)
               ELSE IF c = DQ THEN
                   IF more /\ str[k + 1] = DQ
                   THEN RefMachine(str, k + 2, "Normal", T, out)
                   ELSE RefMachine(str, k + 1, "InDouble", T, out)
               ELSE IF c = BS THEN
                   IF more
                   THEN RefMachine(str, k + 2, "Normal", Append(T, str[k + 1]), out)
                   ELSE RefMachine(str, k + 1, "Normal", Append(T, BS), out)
               ELSE IF c \in {SP, TAB} THEN
                   RefMachine(str, SkipWhitespace(str, k), "Normal", <<>>,
                              IF T # <<>> THEN Append(out, T) ELSE out)
               ELSE RefMachine(str, k + 1, "Normal", Append(T, c), out)
          [] state = "InSingle" ->
               IF c = SQ THEN
                   IF more /\ str[k + 1] = SQ
                   THEN RefMachine(str, k + 2, "InSingle", T, out)
                   ELSE RefMachine(str, k + 1, "Normal", T, out)
               ELSE RefMachine(str, k + 1, "InSingle", Append(T, c), out)
          [] state = "InDouble" ->
               IF c = BS THEN
                   IF ~more THEN RefMachine(str, k + 1, "InDouble", Append(T, BS), out)
                   ELSE IF str[k + 1] \in {DQ, BS}
                   THEN RefMachine(str, k + 2, "InDouble", Append(T, str[k + 1]), out)
                   ELSE RefMachine(str, k + 2, "InDouble", T \o <<BS, str[k + 1]>>, out)
               ELSE IF c = DQ THEN
                   IF more /\ str[k + 1] = DQ
                   THEN RefMachine(str, k + 2, "InDouble", T, out)
                   ELSE RefMachine(str, k + 1, "Normal", T, out)
               ELSE RefMachine(str, k + 1, "InDouble", Append(T, c), out)

RefTokenize(str) == RefMachine(str, 1, "Normal", <<>>, <<>>)

Chars(str) == {str[k] : k \in 1..Len(str)}

\* A token with no whitespace, quote or backslash, and not empty.
PlainToken(tok) == tok # <<>> /\ Chars(tok) \cap {SP, TAB, SQ, DQ, BS} = {}

\* str is join(ts, " ") for a non-empty list ts of plain tokens (ts is then
\* SplitOn(str, " ", 1, <<>>), the only such list).
IsJoinOfPlainTokens(str) ==
    LET ts == SplitOn(str, SP, 1, <<>>)
    IN  /\ \A k \in 1..Len(ts) : PlainToken(ts[k])
        /\ Join(ts, <<SP>>) = str

\* How many quote characters the tokenizer has put into tokens so far.
RECURSIVE CountQuotes(_)
CountQuotes(str) ==
    IF str = <<>> THEN 0
    ELSE (IF Head(str) \in {SQ, DQ} THEN 1 ELSE 0) + CountQuotes(Tail(str))

RECURSIVE CountQuotesAll(_)
CountQuotesAll(toks) ==
    IF toks = <<>> THEN 0 ELSE CountQuotes(Head(toks)) + CountQuotesAll(Tail(toks))

QuotesHeld == CountQuotesAll(lex.tokens) + CountQuotes(lex.currentToken)

----------------------------------------------------------------------------
(* Claims about the executors and the line handler *)

Str_fooNL == <<"f", "o", "o", NL>>
Str_escapedPipeOutput == <<"a", " ", "|", " ", "w", "c", " ", "-", "c", NL>>

\* executePipeline was called for the line.
PipelineCalled == mode \in {"pipeline", "crashed"}

\* Stage i has produced its terminal signal: the builtin's promise is
\* resolved, the child has emitted `error` or `close`.
StageTerminal(i) ==
    IF pipe.processes[i].isBuiltin
    THEN pipe.processes[i].state \in {"resolved", "notified"}
    ELSE pipe.processes[i].state \in {"errored", "closed"}

\* The stages whose handler (then, error or close) has run.
SignalledStages ==
    {i \in 1..Len(pipe.processes) :
        pipe.processes[i].state \in {"notified", "errored", "closed"}}

\* Every head token of the pipeline is a builtin or is found on the PATH.
AllHeadsRunnable ==
    \A i \in 1..Len(pipe.commands) :
        isBuiltin(pipe.commands[i][1]) \/ findCommandInPath(pipe.commands[i][1]) # null

\* executeSingleCommand runs a child with a write stream to a redirect file.
SingleRedirected == mode = "single" /\ single.writeStream # "none"

\* C1: for one call of executePipeline, onComplete is invoked at most once,
\* in every order of the stages' events and when a command is not found.
C1_CallbackAtMostOnce == PipelineCalled => prompts <= 1

\* C1 witness: the callback has been invoked once and a further signal (the
\* `close` after an `error`) has arrived since without a second call.
C1_Witness ==
    /\ mode = "pipeline"
    /\ prompts = 1
    /\ pipe.completedCount > pipe.totalProcesses

\* C2 as stated: once onComplete has been invoked, every started stage of
\* the pipeline has produced its terminal signal.
C2_CallbackAfterAllStages ==
    (PipelineCalled /\ prompts > 0)
        => \A i \in 1..Len(pipe.processes) : StageTerminal(i)

\* C3 as stated: a pipeline whose heads are all builtins or resolvable
\* externals eventually invokes onComplete (unless the end of input
\* terminates the shell first).
C3_EventuallyCompletes ==
    (mode = "pipeline" /\ AllHeadsRunnable) ~> (prompts >= 1 \/ mode = "exited")

\* C4 as stated: completedCount is at most the number of stages that have
\* signalled termination.
C4_CountAtMostTerminated ==
    mode = "pipeline" => pipe.completedCount <= Cardinality(SignalledStages)

\* C5 as stated: with a redirection target, onComplete is invoked only when
\* the child has emitted close or error and the write stream finish or error.
C5_BothTerminalAtCallback ==
    (SingleRedirected /\ prompts > 0)
        => /\ single.childProcess \in {"errored", "closed"}
           /\ single.writeStream \in {"finished", "errored"}

\* C5 amended: with a redirection target, a step that invokes onComplete is
\* either the child's `error` handler (spawn failure, which destroys the
\* write stream and completes at once) or leaves the child closed and the
\* write stream finished or errored.
C5_BothTerminalUnlessSpawnError ==
    [][(SingleRedirected /\ prompts' > prompts)
          => \/ single.childProcess = "spawnFailed" /\ single'.childProcess = "errored"
             \/ /\ single'.processClosed
                /\ single'.writeStream \in {"finished", "errored"}]_vars

\* C5 witness: onComplete invoked after the child closed and the write
\* stream finished, the captured output being in the file.
C5_Witness ==
    /\ SingleRedirected
    /\ line = Line_catToF
    /\ prompts = 1
    /\ single.childProcess = "closed"
    /\ single.writeStream = "finished"
    /\ world.files[Str_F] = Str_childOutput

\* C6 as stated: `echo foo > F` leaves foo\n in F, `echo foo >> G` appends
\* foo\n to G, and neither prints the payload on the terminal.
C6_BuiltinRedirectionWritesFile ==
    /\ (mode = "builtin" /\ line = Line_echoToF)
          => world.files[Str_F] = Str_fooNL /\ world.stdout = <<>>
    /\ (mode = "builtin" /\ line = Line_echoAppendG)
          => world.files[Str_G] = Str_old \o Str_fooNL /\ world.stdout = <<>>

\* C7 as stated: the line `echo a \| wc -c` runs as one single command that
\* prints `a | wc -c` and a newline, not as a pipeline.
C7_EscapedPipeIsLiteral ==
    (line = Line_escapedPipe /\ mode # "idle")
        => mode = "builtin" /\ world.stdout = Str_escapedPipeOutput

----------------------------------------------------------------------------
(* Claims about the tokenizer *)

\* C8: for every input over the alphabet, parseCommandLine returns exactly the
\* token list of the three-state machine (Normal, InSingle, InDouble).
C8_MatchesStateMachine ==
    lexpc = "done" => lex.tokens = RefTokenize(input)

\* C8 witness: a finished run over an input that escapes a character inside
\* double quotes (backslash kept) with an unquoted character joined to it.
C8_Witness ==
    /\ lexpc = "done"
    /\ input = <<DQ, BS, "a", DQ, "b">>
    /\ lex.tokens = <<<<BS, "a", "b">>>>

\* C9: round trip - when the input is the join by single spaces of a non-empty
\* list of plain tokens, parseCommandLine returns that list, in that order.
C9_RoundTrip ==
    (lexpc = "done" /\ IsJoinOfPlainTokens(input))
        => lex.tokens = SplitOn(input, SP, 1, <<>>)

\* C9 witness: three plain tokens come back in input order.
C9_Witness ==
    /\ lexpc = "done"
    /\ input = <<"b", SP, "a", SP, "b">>
    /\ lex.tokens = <<<<"b">>, <<"a">>, <<"b">>>>

\* C10 as stated: no returned token contains a single or double quote character.
C10_NoQuoteInToken ==
    lexpc = "done" =>
        \A k \in 1..Len(lex.tokens) : Chars(lex.tokens[k]) \cap {SQ, DQ} = {}

\* C10 amended: a quote character enters a token only when a backslash
\* precedes it or when it stands inside quotes of the other kind; a quote that
\* opens or closes a quoted segment never becomes payload.
C10_OnlyProtectedQuotes ==
    [][(lexpc = "loop" /\ lex.i <= Len(input) /\ QuotesHeld' > QuotesHeld)
          => \/ input[lex.i] = BS /\ ~lex.inSingleQuotes
             \/ input[lex.i] = SQ /\ lex.inDoubleQuotes
             \/ input[lex.i] = DQ /\ lex.inSingleQuotes]_vars

\* C10 witness: a finished run whose input has syntactic quotes and an
\* escaped one; only the escaped one is in the token.
C10_Witness ==
    /\ lexpc = "done"
    /\ input = <<SQ, "a", SQ, BS, SQ>>
    /\ lex.tokens = <<<<"a", SQ>>>>

----------------------------------------------------------------------------
(* More claims about the tokenizer *)

\* How many tab characters the tokenizer has put into tokens so far.
RECURSIVE CountTabs(_)
CountTabs(str) ==
    IF str = <<>> THEN 0
    ELSE (IF Head(str) = TAB THEN 1 ELSE 0) + CountTabs(Tail(str))

RECURSIVE CountTabsAll(_)
CountTabsAll(toks) ==
    IF toks = <<>> THEN 0 ELSE CountTabs(Head(toks)) + CountTabsAll(Tail(toks))

TabsHeld == CountTabsAll(lex.tokens) + CountTabs(lex.currentToken)

\* C11 as stated: no returned token contains a tab character.
C11_NoTabInToken ==
    lexpc = "done" =>
        \A k \in 1..Len(lex.tokens) : TAB \notin Chars(lex.tokens[k])

\* C11 amended: a tab enters a token only inside single or double quotes or
\* right after a backslash; a tab outside quotes that no backslash precedes
\* separates tokens and is never payload.
C11_OnlyProtectedTabs ==
    [][(lexpc = "loop" /\ lex.i <= Len(input) /\ TabsHeld' > TabsHeld)
          => \/ input[lex.i] = BS /\ ~lex.inSingleQuotes
             \/ input[lex.i] = TAB /\ (lex.inSingleQuotes \/ lex.inDoubleQuotes)]_vars

\* C11 witness: a finished run whose input has a separating tab and a quoted
\* one; only the quoted one is in a token.
C11_Witness ==
    /\ lexpc = "done"
    /\ input = <<"a", TAB, SQ, TAB, SQ>>
    /\ lex.tokens = <<<<"a">>, <<TAB>>>>

\* C12: parseCommandLine is total and terminates: the loop can always take
\* its next step, every iteration advances the read index by at least one and
\* never past the end of the input, the call returns, and when the input ends
\* inside an open quote the accumulated characters are the final token.
C12_TotalAndTerminates ==
    /\ [][(lexpc = "loop" /\ lexpc' = "loop") => lex'.i > lex.i]_vars
    /\ [](lexpc = "loop" => (lex.i <= Len(input) + 1 /\ ENABLED ParseNext))
    /\ []((lexpc = "done" /\ (lex.inSingleQuotes \/ lex.inDoubleQuotes)
             /\ lex.currentToken # <<>>)
            => (lex.tokens # <<>> /\ lex.tokens[Len(lex.tokens)] = lex.currentToken))
    /\ <>(lexpc = "done")

\* C12 witness: the input ends inside an open single quote and the call has
\* returned with the accumulated character as the final token.
C12_Witness ==
    /\ lexpc = "done"
    /\ input = <<"a", SP, SQ, "b">>
    /\ lex.inSingleQuotes
    /\ lex.tokens = <<<<"a">>, <<"b">>>>

----------------------------------------------------------------------------
(* Claims about parsePipeline and parseRedirection *)

\* C13 as stated: for every token list without the token |, parsePipeline
\* returns exactly one stage, equal to the list.
C13_OneStageWithoutPipe ==
    (planpc = "split" /\ ~Includes(tokenList, Str_pipe))
        => plan.commands = <<tokenList>>

\* C13 amended: for every non-empty token list without the token |,
\* parsePipeline returns exactly one stage, equal to the list, and prints
\* nothing; for the empty list it returns the empty plan.
C13_OneStageWithoutPipeNonEmpty ==
    (planpc = "split" /\ ~Includes(tokenList, Str_pipe))
        => /\ plan.printed = <<>>
           /\ plan.commands = IF tokenList = <<>> THEN <<>> ELSE <<tokenList>>

\* C13 witness: a list of three words came back as one stage.
C13_Witness ==
    /\ planpc = "split"
    /\ tokenList = <<<<"a">>, <<"b">>, <<"a">>>>
    /\ plan.commands = <<tokenList>>

\* C15: when parsePipeline returns a non-empty plan, every stage is non-empty,
\* no stage contains the token |, and the stages joined by one | token
\* between neighbours are the input token list.
C15_PlanRebuildsTokens ==
    (planpc = "split" /\ plan.commands # <<>>)
        => /\ \A k \in 1..Len(plan.commands) :
                 /\ plan.commands[k] # <<>>
                 /\ ~Includes(plan.commands[k], Str_pipe)
           /\ Join(plan.commands, <<Str_pipe>>) = tokenList

\* C15 witness: a three-stage plan.
C15_Witness ==
    /\ planpc = "split"
    /\ tokenList = <<<<"a">>, Str_pipe, <<"b">>, Str_pipe, <<"a">>>>
    /\ plan.commands = <<<<<<"a">>>>, <<<<"b">>>>, <<<<"a">>>>>>

\* The token | stands first, last, or right after another |.
BadPipe(ts) ==
    \E k \in 1..Len(ts) :
        /\ ts[k] = Str_pipe
        /\ IF k = 1 \/ k = Len(ts) THEN TRUE ELSE ts[k - 1] = Str_pipe

\* C14: when | is the first token, the last token, or follows another |,
\* parsePipeline returns the empty plan, the diagnostic is printed exactly
\* once for the line, and the handler runs no stage of the line: it prompts
\* (and nothing follows but the end of input).
C14_BadPipeRejectedOnce ==
    (mode # "idle" /\ BadPipe(parseCommandLine(Trim(line))))
        => /\ parsePipeline(parseCommandLine(Trim(line))).commands = <<>>
           /\ world.stdout = Str_syntaxError \o <<NL>>
           /\ world.stderr = <<>>
           /\ mode \in {"prompted", "exited"}
           /\ prompts = 1
           /\ pipe = PipeNone
           /\ single = SingleNone
           /\ promise = "none"

\* C14 witness: a line with three empty stages was handled with one
\* diagnostic.
C14_Witness ==
    /\ line = <<"|", SP, "|">>
    /\ mode = "prompted"
    /\ world.stdout = Str_syntaxError \o <<NL>>

\* The operator table of the specification, independent of the code's scan.
JoinedOperators == {Str_gt, Str_gtgt, Str_1gt, Str_1gtgt, Str_2gt, Str_2gtgt}

\* A descriptor digit followed by > or >> as separate tokens.
SplitFormAt(ts, k) ==
    /\ ts[k] \in {Str_1, Str_2}
    /\ k + 1 <= Len(ts)
    /\ ts[k + 1] \in {Str_gt, Str_gtgt}

OperatorAt(ts, k) == ts[k] \in JoinedOperators \/ SplitFormAt(ts, k)

\* The first operator position scanning left to right, 0 when there is none.
FirstOperator(ts) ==
    IF \E k \in 1..Len(ts) : OperatorAt(ts, k)
    THEN CHOOSE k \in 1..Len(ts) :
             OperatorAt(ts, k) /\ \A j \in 1..(k - 1) : ~OperatorAt(ts, j)
    ELSE 0

TableFd(ts, k) ==
    IF SplitFormAt(ts, k) THEN (IF ts[k] = Str_1 THEN 1 ELSE 2)
    ELSE IF ts[k] \in {Str_2gt, Str_2gtgt} THEN 2 ELSE 1

TableAppend(ts, k) ==
    IF SplitFormAt(ts, k) THEN ts[k + 1] = Str_gtgt
    ELSE ts[k] \in {Str_gtgt, Str_1gtgt, Str_2gtgt}

\* Where the target stands: after the operator token.
TargetPosition(ts, k) == IF SplitFormAt(ts, k) THEN k + 2 ELSE k + 1

TableTarget(ts, k) ==
    IF TargetPosition(ts, k) <= Len(ts) THEN ts[TargetPosition(ts, k)] ELSE null

\* The last position of the clause: the target's, or the end of the list
\* when the target is missing.
UpToTarget(ts, k) ==
    IF TargetPosition(ts, k) <= Len(ts) THEN TargetPosition(ts, k) ELSE Len(ts)

\* C16: at the first operator, parseRedirection returns the descriptor and
\* mode of the table (>, 1>, 1 >: fd 1 overwrite; >>, 1>>, 1 >>: fd 1 append;
\* 2>, 2 >: fd 2 overwrite; 2>>, 2 >>: fd 2 append), and the target is the
\* token after the operator token, or null when there is none.
C16_OperatorTable ==
    (planpc = "extracted" /\ FirstOperator(tokenList) # 0)
        => /\ plan.hasRedirection
           /\ plan.redirectFd = TableFd(tokenList, FirstOperator(tokenList))
           /\ plan.isAppend = TableAppend(tokenList, FirstOperator(tokenList))
           /\ plan.redirectFile = TableTarget(tokenList, FirstOperator(tokenList))

\* C16 witness: the split form `2 >>` with its target two positions after
\* the digit.
C16_Witness ==
    /\ planpc = "extracted"
    /\ tokenList = <<<<"a">>, Str_2, Str_gtgt, <<"a">>>>
    /\ plan.redirectFd = 2
    /\ plan.isAppend
    /\ plan.redirectFile = <<"a">>

\* C17: the command tokens are the tokens strictly before the first operator
\* position (the whole list, with no clause, when there is no operator), and
\* the result is that of the list cut off after the target: later operators
\* and tokens change nothing.
C17_PrefixBeforeFirstOperator ==
    planpc = "extracted"
        => IF FirstOperator(tokenList) = 0
           THEN plan = [hasRedirection |-> FALSE, commandTokens |-> tokenList,
                        redirectFile |-> null, redirectFd |-> 1, isAppend |-> FALSE]
           ELSE /\ plan.commandTokens
                     = SubSeq(tokenList, 1, FirstOperator(tokenList) - 1)
                /\ plan = parseRedirection(
                              SubSeq(tokenList, 1,
                                     UpToTarget(tokenList, FirstOperator(tokenList))))

\* C17 witness: a second redirection after the target of the first is
\* ignored.
C17_Witness ==
    /\ planpc = "extracted"
    /\ tokenList = <<<<"a">>, Str_gt, <<"a">>, Str_2gtgt, <<"a">>>>
    /\ plan.commandTokens = <<<<"a">>>>
    /\ plan.redirectFd = 1
    /\ ~plan.isAppend
    /\ plan.redirectFile = <<"a">>

----------------------------------------------------------------------------
(* More claims about the executors *)

\* The redirection clause of the handled line.
LineRedirection == parseRedirection(parseCommandLine(Trim(line)))

\* C18 as stated: for a single external command whose redirection operator
\* has no target, no file is opened and the child's output on the redirected
\* descriptor reaches neither the shell's standard output nor its standard
\* error.
C18_MissingTargetOutputNowhere ==
    (mode = "single" /\ LineRedirection.hasRedirection
         /\ LineRedirection.redirectFile = null
         /\ single.childProcess \in {"exited", "closed"})
        => /\ world.files = InitialFiles
           /\ world.stdout = <<>>

Str_aNL == <<"a", NL>>

\* C19 as stated: in a pipeline of more than one stage a stage's redirection
\* clause is honoured: no stage that runs still has the operator and target
\* among its tokens, and for `echo a > F | cat` the diverted output a\n is in
\* the file F.
C19_PipelineRedirectionHonoured ==
    (mode = "pipeline" /\ Len(pipe.commands) > 1)
        => /\ \A i \in 1..Len(pipe.commands) :
                 ~parseRedirection(pipe.commands[i]).hasRedirection
           /\ line = Line_echoToFPipeCat => world.files[Str_F] = Str_aNL

\* The wiring table of the specification for stage i of n.
TableStdio(i, n) ==
    IF n = 1 THEN <<"inherit", "inherit", "inherit">>
    ELSE IF i = 1 THEN <<"inherit", "pipe", "inherit">>
    ELSE IF i = n THEN <<"pipe", "inherit", "inherit">>
    ELSE <<"pipe", "pipe", "inherit">>

\* C20 as stated: every external stage that executePipeline spawns has the
\* stdio of its role in the wiring table, for every length n >= 1: the only
\* stage inherits all three, the first pipes stdout, a middle one pipes stdin
\* and stdout, the last pipes stdin; stderr is always inherited.
C20_StdioByRole ==
    mode = "pipeline"
        => \A i \in 1..Len(pipe.processes) :
               pipe.processes[i].isBuiltin
               \/ pipe.processes[i].stdioConfig = TableStdio(i, Len(pipe.commands))

----------------------------------------------------------------------------
(* Internal commands and their output stream *)

\* Stage i is an internal command that was handed an output stream (it is not
\* the last stage) and whose promise has notified the executor.
BuiltinSignalledWithStream(i) ==
    /\ mode = "pipeline"
    /\ i <= Len(pipe.processes)
    /\ i < Len(pipe.commands)
    /\ i <= Len(pipe.streams)
    /\ pipe.processes[i].isBuiltin
    /\ pipe.processes[i].state = "notified"

\* C21: when an internal command that was given an output stream signals
\* completion, that stream has been ended, whatever the command (echo, pwd,
\* cd, type, history, exit) and whether it succeeded or failed.
C21_StreamClosedAtSignal ==
    \A i \in 1..MaxStages :
        BuiltinSignalledWithStream(i) => pipe.streams[i].ended

----------------------------------------------------------------------------
(* The history manager *)

\* C22: a successful writeToFile(F) followed at once by a successful
\* readFromFile(F) leaves the in-memory history as it was before the write:
\* the same entries in the same order.
C22_WriteThenReadRestores ==
    [][(/\ call.op = "writeToFile" /\ call.success
        /\ call'.op = "readFromFile" /\ call'.success
        /\ call'.args = call.args)
          => world'.history = call.history]_vars

\* A history of two different entries written to F and read back from it.
C22_Witness ==
    /\ call.op = "readFromFile" /\ call.success
    /\ call.previous = <<"writeToFile", call.args, TRUE>>
    /\ Len(world.history) >= 2
    /\ world.history[1] # world.history[2]
    /\ world.history = call.history

\* The entries after position k, each followed by a newline.
RECURSIVE EntryLinesAfter(_, _)
EntryLinesAfter(history, k) ==
    IF k >= Len(history) THEN <<>>
    ELSE history[k + 1] \o <<NL>> \o EntryLinesAfter(history, k + 1)

\* What a file holds after text was appended to content (null: no file).
Appended(content, text) ==
    IF text = <<>> THEN content
    ELSE (IF content = null THEN <<>> ELSE content) \o text

\* C23: a successful appendToFile(F) appends to F exactly the entries after
\* the last-saved marker, in order, one per line, leaves the history alone and
\* sets the marker to the history length; called again with no addCommand in
\* between it appends nothing.
C23_AppendExactlyNewEntries ==
    (call.op = "appendToFile" /\ call.success) =>
        /\ world.history = call.history
        /\ world.lastSavedIndex = Len(world.history)
        /\ call.args[1] \in FilePaths =>
              world.files[call.args[1]] =
                  Appended(call.content,
                           EntryLinesAfter(call.history, call.lastSavedIndex))
        /\ (call.previous[1] = "appendToFile" /\ call.previous[3]
               /\ call.args[1] \in FilePaths) =>
              world.files[call.args[1]] = call.content

\* Two entries appended to F by one call, and a second call after it.
C23_Witness ==
    /\ call.op = "appendToFile" /\ call.success
    /\ call.previous = <<"appendToFile", <<Str_F>>, TRUE>>
    /\ call.args = <<Str_F>>
    /\ world.history = <<<<"a">>, <<"b">>>>
    /\ world.files[Str_F] = <<"a", NL, "b", NL>>

\* The non-empty lines of a text, read character by character.
RECURSIVE LinesOf(_, _, _, _)
LinesOf(content, k, current, out) ==
    LET flushed == IF current = <<>> THEN out ELSE Append(out, current)
    IN  IF k > Len(content) THEN flushed
        ELSE IF content[k] = NL THEN LinesOf(content, k + 1, <<>>, flushed)
        ELSE LinesOf(content, k + 1, Append(current, content[k]), out)

\* The last call was `history FLAG PATH`.
HistoryCalled(flag) ==
    /\ call.op = "history"
    /\ Len(call.args) = 2
    /\ call.args[1] = flag

\* C24: after a successful `history -r F` the history is exactly the
\* non-empty lines of F in file order (the entries held before are gone) and
\* the marker equals the new length; a `history -a G` that follows at once
\* leaves G as it was.
C24_ReadReplacesAndMarks ==
    /\ (HistoryCalled(Str_flagR) /\ call.success) =>
           /\ world.history = LinesOf(call.content, 1, <<>>, <<>>)
           /\ world.lastSavedIndex = Len(world.history)
    /\ (HistoryCalled(Str_flagA) /\ call.args[2] \in FilePaths
           /\ call.previous[1] = "history" /\ call.previous[3]
           /\ call.previous[2][1] = Str_flagR) =>
           world.files[call.args[2]] = call.content

\* `history -r F` on a file of two entries around a blank line, then
\* `history -a G`.
C24_Witness ==
    /\ HistoryCalled(Str_flagA) /\ call.success
    /\ call.args[2] = Str_G
    /\ call.previous = <<"history", <<Str_flagR, Str_F>>, TRUE>>
    /\ world.files[Str_F] = Str_blankLines
    /\ world.history = <<<<"a">>, <<"b">>>>
    /\ world.files[Str_G] = Str_old

\* The listing of a whole history: line k is entry k behind its position.
FullListing(history) ==
    [k \in 1..Len(history) |->
        <<SP, SP, SP, SP>> \o NatToString(k) \o <<SP, SP>> \o history[k] \o <<NL>>]

\* The last n lines of a listing (all of them when it has fewer), as one text.
LastLines(listing, n) ==
    LET m == IF n < Len(listing) THEN n ELSE Len(listing)
    IN  Join(SubSeq(listing, Len(listing) - m + 1, Len(listing)), <<>>)

\* The last call was `history` or `history N`.
ListingCalled ==
    /\ call.op = "history"
    /\ Len(call.args) <= 1

\* C25: `history N` with a positive integer N emits the last min(N, length)
\* entries in order, each with its 1-based position in the full history, and
\* `history` alone emits every entry numbered 1..length.
C25_LastEntriesKeepIndices ==
    ListingCalled =>
        LET shown == IF call.args = <<>> THEN Len(call.history)
                     ELSE IF call.args[1] = Str_1 THEN 1 ELSE 2
        IN  call.ops = <<StreamWrite(LastLines(FullListing(call.history), shown)),
                         StreamEnd>>

\* `history 1` on a history of two entries shows the second as number 2.
C25_Witness ==
    /\ ListingCalled
    /\ call.args = <<Str_1>>
    /\ call.history = <<<<"a">>, <<"b">>>>
    /\ call.ops[1].data = <<SP, SP, SP, SP, "2", SP, SP, "b", NL>>

----------------------------------------------------------------------------
(* History and the shell's lines *)

\* The history loaded at startup from the history file.
StartupHistory == NonEmptyLines(InitialFiles[HISTFILE])

\* The tokens of the handled line.
LineTokens == parseCommandLine(Trim(line))

\* The handled line is `history -r ...`, which replaces the history.
LineReadsHistory ==
    /\ Len(LineTokens) >= 2
    /\ LineTokens[1] = Str_history
    /\ LineTokens[2] = Str_flagR

\* The text ends with the listing line of entry number n.
EndsWithEntry(text, n, entry) ==
    LET last == <<SP, SP, SP, SP>> \o NatToString(n) \o <<SP, SP>> \o entry \o <<NL>>
    IN  /\ Len(text) >= Len(last)
        /\ SubSeq(text, Len(text) - Len(last) + 1, Len(text)) = last

\* C26: a non-empty line is in the history, as its last entry, before any of
\* it runs: unless the line itself reloads the history, the history after the
\* handler is the startup history and then the trimmed line, and the listing
\* printed by a line `history`, `history 1` or `history 5` ends with that
\* line, numbered with the history length.
C26_LineInHistoryBeforeExecution ==
    (mode # "idle" /\ Trim(line) # <<>>) =>
        /\ ~LineReadsHistory =>
               world.history = Append(StartupHistory, Trim(line))
        /\ line \in {Line_history, Line_history1, Line_history5} =>
               EndsWithEntry(world.stdout, Len(world.history), line)

\* The line `history` printed the startup entry and then itself.
C26_Witness ==
    /\ line = Line_history
    /\ mode = "builtin"
    /\ world.stdout = <<SP, SP, SP, SP, "1", SP, SP, "o", "l", "d", NL>>
                        \o <<SP, SP, SP, SP, "2", SP, SP>> \o Line_history \o <<NL>>

\* C27: when the shell terminates, on end of input or on the line `exit`,
\* the history file is what it was followed by the entries after the
\* last-saved marker, each once and in order, and no other file changes; the
\* shell does not wait for children that are still running.
C27_ExitFlushesEachEntryOnce ==
    [][(mode # "exited" /\ mode' = "exited") =>
          /\ world'.files[HISTFILE] =
                 Appended(world.files[HISTFILE],
                          EntryLinesAfter(world'.history, world.lastSavedIndex))
          /\ \A f \in FilePaths \ {HISTFILE} : world'.files[f] = world.files[f]
          /\ world'.lastSavedIndex = Len(world'.history)]_vars

\* The line `exit` left the history file with the line appended once.
C27_Witness ==
    /\ line = Str_exit
    /\ mode = "exited"
    /\ world.history = Append(StartupHistory, Str_exit)
    /\ world.files[HISTFILE] = Str_old \o Str_exit \o <<NL>>

----------------------------------------------------------------------------
(* cd *)

\* The handled line was `cd ...` run as a single internal command.
CdLine ==
    /\ mode \in {"builtin", "exited"}
    /\ promise # "none"
    /\ LineTokens[1] = Str_cd

\* The directory a `cd` line names when HOME is h: HOME for no argument and
\* for ~, HOME/REST for ~/REST, the argument otherwise.
CdTarget(args, h) ==
    IF args = <<>> \/ args[1] = Str_tilde THEN h
    ELSE IF IsPrefix(Str_tildeSlash, args[1])
    THEN h \o <<"/">> \o SubSeq(args[1], 3, Len(args[1]))
    ELSE args[1]

\* The one diagnostic of a failed change to target.
CdDiagnostic(target) == Str_cdPrefix \o target \o Str_noSuchFile

\* C28: `cd` with no argument and HOME unset prints exactly
\* `cd: HOME not set` and a newline; a change that fails prints exactly one
\* `No such file or directory` diagnostic; on every error the working
\* directory is what it was; a change that succeeds prints nothing.
C28_CdErrorsLeaveDirectory ==
    CdLine =>
        LET args == Tail(LineTokens)
            target == CdTarget(args, world.home)
        IN  /\ (args = <<>> /\ world.home = null) =>
                   (world.stdout = Str_cdHome /\ world.cwd = Str_root)
            /\ world.stdout # <<>> => world.cwd = Str_root
            /\ world.stdout \in {<<>>, Str_cdHome, CdDiagnostic(target)}
            /\ (world.home # null /\ target \notin Directories) =>
                   world.stdout = CdDiagnostic(target)
            /\ (world.home # null /\ target \in Directories) =>
                   (world.stdout = <<>> /\ world.cwd = target)

\* `cd /x` failed: one diagnostic, the directory unchanged.
C28_Witness ==
    /\ CdLine
    /\ line = Line_cdMissing
    /\ world.stdout = CdDiagnostic(<<"/", "x">>)
    /\ world.cwd = Str_root

----------------------------------------------------------------------------
(* exit *)

\* The handled line has tokens and its head token is `exit`.
ExitLine ==
    /\ mode # "idle"
    /\ Len(LineTokens) >= 1
    /\ LineTokens[1] = Str_exit

\* C29: a line whose head token is `exit` (`exit`, `exit 0`) is never run as
\* an internal command: the handler flushes the history and terminates the
\* process.
C29_ExitHeadTerminates ==
    ExitLine =>
        /\ mode = "exited"
        /\ promise = "none"
        /\ world.lastSavedIndex = Len(world.history)

----------------------------------------------------------------------------
(* executeSingleCommand's callback *)

\* The child has closed and the write stream, if any, has finished or failed.
SingleSettled ==
    /\ single.childProcess = "closed"
    /\ single.writeStream \in {"none", "finished", "errored"}

\* C30: executeSingleCommand calls onComplete exactly once per call: never
\* twice, and once when the command was not found or when the child has
\* closed and the write stream is done, a failed spawn included.
C30_OnCompleteExactlyOnce ==
    mode = "single" =>
        /\ prompts <= 1
        /\ (single.childProcess = "none" \/ SingleSettled) => prompts = 1

----------------------------------------------------------------------------
(* Lines in execution *)

\* C31: at most one input line is in execution at any time: the handler
\* starts the command of a line only when the command or pipeline of the
\* line before it has invoked its completion callback.
C31_OneLineInExecution ==
    overlap.mode \in {"builtin", "single", "pipeline"} => ~overlap.pending

----------------------------------------------------------------------------
(* What is persisted when the shell terminates *)

\* The entries a file holds (none when there is no file).
FileLines(files, f) ==
    IF files[f] = null THEN <<>> ELSE LinesOf(files[f], 1, <<>>, <<>>)

\* How many lines of all the files equal the entry.
Occurrences(files, entry) ==
    Cardinality({p \in UNION {{<<f, k>> : k \in 1..Len(FileLines(files, f))} :
                                  f \in FilePaths} :
                    FileLines(files, p[1])[p[2]] = entry})

----------------------------------------------------------------------------
(* The last-saved marker *)

\* C33: after any sequence of addCommand, readFromFile, writeToFile and
\* appendToFile calls, succeeding or failing, the last-saved marker is
\* between 0 and the history length.
C33_MarkerWithinHistory ==
    mode = "history" =>
        /\ 0 <= world.lastSavedIndex
        /\ world.lastSavedIndex <= Len(world.history)

\* A read that left fewer entries than the marker counted before it.
C33_Witness ==
    /\ call.op = "readFromFile" /\ call.success
    /\ call.lastSavedIndex > Len(world.history)
    /\ world.lastSavedIndex = Len(world.history)
    /\ world.history # <<>>

----------------------------------------------------------------------------
(* Failing file operations *)

\* The last call was a file operation of the manager that failed.
FileCallFailed ==
    /\ call.op \in {"readFromFile", "writeToFile", "appendToFile"}
    /\ ~call.success

\* C34: a failing readFromFile, writeToFile or appendToFile leaves the
\* history and the last-saved marker as they were, so that the next
\* successful appendToFile still appends the entries that were not saved.
C34_FailureChangesNothing ==
    /\ FileCallFailed =>
           /\ world.history = call.history
           /\ world.lastSavedIndex = call.lastSavedIndex
    /\ (call.op = "appendToFile" /\ call.success
           /\ call.previous[1] \in {"writeToFile", "appendToFile"}
           /\ ~call.previous[3]
           /\ call.lastSavedIndex < Len(call.history)) =>
              world.files[call.args[1]] =
                  Appended(call.content,
                           EntryLinesAfter(call.history, call.lastSavedIndex))

\* An append to an unwritable path failed, and the append to F after it wrote
\* the two unsaved entries.
C34_Witness ==
    /\ call.op = "appendToFile" /\ call.success
    /\ call.previous = <<"appendToFile", <<Str_bad>>, FALSE>>
    /\ call.args = <<Str_F>>
    /\ call.lastSavedIndex = 0
    /\ call.history = <<<<"a">>, <<"b">>>>
    /\ call.content = null
    /\ world.files[Str_F] = <<"a", NL, "b", NL>>

----------------------------------------------------------------------------
(* end() calls on the output stream of an internal command *)

\* C35: an internal command that was given an output stream calls end() on
\* it exactly once and never writes to it after that call, on every path of
\* every command, the failure paths of cd and history included.
C35_StreamEndedExactlyOnce ==
    \A i \in 1..MaxStages :
        BuiltinSignalledWithStream(i) =>
            /\ pipe.streams[i].ends = 1
            /\ ~pipe.streams[i].writeAfterEnd

\* cd with a directory that does not exist, as a non-terminal stage, has
\* written its diagnostic and notified the executor.
C35_Witness ==
    /\ BuiltinSignalledWithStream(1)
    /\ pipe.commands[1] = <<Str_cd, <<"/", "x">>>>
    /\ pipe.streams[1].data = CdDiagnostic(<<"/", "x">>)

----------------------------------------------------------------------------
(* The channel list of executePipeline *)

\* Every stage of the pipeline resolved, so the loop wired all of them.
AllStagesWired ==
    /\ mode = "pipeline"
    /\ pipe.attached
    /\ Len(pipe.processes) = Len(pipe.commands)

\* The number of non-terminal stages among the first j of n.
NonTerminalUpTo(j, n) == IF j < n THEN j ELSE n - 1

\* C36: when every command resolves, after each stage is wired the channel
\* list holds one output channel per wired non-terminal stage, in stage
\* order, and the input of every stage after the first is the output channel
\* of the stage before it and of no other stage, for internal and external
\* stages alike.
C36_OneChannelPerStage ==
    AllStagesWired =>
        LET n == Len(pipe.commands)
        IN  /\ Len(pipe.streams) = n - 1
            /\ \A j \in 1..n :
                   /\ pipe.processes[j].channels = NonTerminalUpTo(j, n)
                   /\ pipe.processes[j].output = IF j < n THEN j ELSE 0
                   /\ pipe.processes[j].input =
                          IF j = 1 THEN 0 ELSE pipe.processes[j - 1].output
                   /\ j < n => pipe.streams[j].kind =
                          IF pipe.processes[j].isBuiltin
                          THEN "PassThrough" ELSE "stdout"

\* A three-stage pipeline mixing external and internal stages is wired.
C36_Witness ==
    /\ AllStagesWired
    /\ Len(pipe.commands) = 3
    /\ ~pipe.processes[1].isBuiltin
    /\ pipe.processes[2].isBuiltin
    /\ ~pipe.processes[3].isBuiltin
    /\ pipe.processes[2].input = 1
    /\ pipe.processes[3].input = 2
    /\ Len(pipe.streams) = 2

----------------------------------------------------------------------------
(* findLongestCommonPrefix                                                    *)

\* Most characters of a string in the list, and most strings in the list.
MaxWord == 2
MaxStrings == 3

PrefixAlphabet == {"a", "b"}

PrefixWords == UNION {[1..k -> PrefixAlphabet] : k \in 0..MaxWord}

PrefixLists == UNION {[1..n -> PrefixWords] : n \in 0..MaxStrings}

\* The prefix emptied in one step instead of losing its last character.
ShrinkToEmpty(prefix) == <<>>

\* prefix.substring(0, prefix.length - 1).
Shrink(prefix) == SubSeq(prefix, 1, Len(prefix) - 1)

\* string[i].indexOf(prefix) !== 0, the condition of the while loop.
NotAtStart(str, prefix) == ~IsPrefix(prefix, str)

\* The while loop for one element: the prefix it leaves, <<>> when the body
\* returned "".
RECURSIVE ShrinkLoop(_, _)
ShrinkLoop(str, prefix) ==
    IF NotAtStart(str, prefix)
    THEN IF Shrink(prefix) = <<>> THEN <<>> ELSE ShrinkLoop(str, Shrink(prefix))
    ELSE prefix

\* The for loop from element i on (1-based).
RECURSIVE PrefixLoop(_, _, _)
PrefixLoop(string, i, prefix) ==
    IF i > Len(string) THEN prefix
    ELSE IF NotAtStart(string[i], prefix) /\ ShrinkLoop(string[i], prefix) = <<>>
    THEN <<>>
    ELSE PrefixLoop(string, i + 1, ShrinkLoop(string[i], prefix))

\* findLongestCommonPrefix(string), as one value.
findLongestCommonPrefix(string) ==
    IF Len(string) = 0 THEN <<>>
    ELSE IF Len(string) = 1 THEN string[1]
    ELSE PrefixLoop(string, 2, string[1])

\* A call with a list of up to MaxStrings strings.
PrefixInit ==
    /\ input = <<>>
    /\ lex = LexInit
    /\ lexpc = "off"
    /\ ShellOff
    /\ PlanOff
    /\ overlap = OverlapNone
    /\ tab = TabNone
    /\ \E string \in PrefixLists :
          lcp = [LcpNone EXCEPT !.string = string, !.pc = "call"]

\* The two early returns and `let prefix = string[0]`.
PrefixCall ==
    /\ lcp.pc = "call"
    /\ lcp' = IF Len(lcp.string) = 0
              THEN [lcp EXCEPT !.pc = "done", !.result = <<>>]
              ELSE IF Len(lcp.string) = 1
              THEN [lcp EXCEPT !.pc = "done", !.result = lcp.string[1]]
              ELSE [lcp EXCEPT !.pc = "for", !.prefix = lcp.string[1], !.i = 2]
    /\ UNCHANGED <<overlap, tab>>
    /\ UNCHANGED parseVars
    /\ UNCHANGED shellVars
    /\ UNCHANGED planVars
    /\ UNCHANGED historyVars

\* The test of the for loop, and `return prefix` behind it.
PrefixFor ==
    /\ lcp.pc = "for"
    /\ lcp' = IF lcp.i > Len(lcp.string)
              THEN [lcp EXCEPT !.pc = "done", !.result = lcp.prefix]
              ELSE [lcp EXCEPT !.pc = "while"]
    /\ UNCHANGED <<overlap, tab>>
    /\ UNCHANGED parseVars
    /\ UNCHANGED shellVars
    /\ UNCHANGED planVars
    /\ UNCHANGED historyVars

\* The test of the while loop and one pass through its body; i++ when the
\* test fails.
PrefixWhile ==
    /\ lcp.pc = "while"
    /\ lcp' = IF NotAtStart(lcp.string[lcp.i], lcp.prefix)
              THEN IF Shrink(lcp.prefix) = <<>>
                   THEN [lcp EXCEPT !.pc = "done", !.prefix = <<>>, !.result = <<>>]
                   ELSE [lcp EXCEPT !.prefix = Shrink(lcp.prefix)]
              ELSE [lcp EXCEPT !.pc = "for", !.i = @ + 1]
    /\ UNCHANGED <<overlap, tab>>
    /\ UNCHANGED parseVars
    /\ UNCHANGED shellVars
    /\ UNCHANGED planVars
    /\ UNCHANGED historyVars

PrefixNext ==
    \/ PrefixCall
    \/ PrefixFor
    \/ PrefixWhile

SpecPrefix == PrefixInit /\ [][PrefixNext]_vars

\* The call is not suspended: it is synchronous code.
SpecPrefixLive == SpecPrefix /\ WF_vars(PrefixNext)

\* p is a prefix of every element of the list.
CommonPrefix(p, string) == \A k \in 1..Len(string) : IsPrefix(p, string[k])

\* The longest string that is a prefix of every element of a list that is
\* not empty: a prefix of the first element that no other common prefix
\* exceeds in length.
LongestCommon(string) ==
    CHOOSE p \in {SubSeq(string[1], 1, n) : n \in 0..Len(string[1])} :
        /\ CommonPrefix(p, string)
        /\ \A n \in 0..Len(string[1]) :
               CommonPrefix(SubSeq(string[1], 1, n), string) => n <= Len(p)

\* C37: for every list of strings the call returns, and what it returns is
\* the longest string that is a prefix of every element: the empty string
\* for the empty list and when the elements share no prefix, the element
\* itself for a list of one.
C37_LongestCommonPrefix ==
    /\ <>(lcp.pc = "done")
    /\ [](lcp.pc = "done" =>
             /\ lcp.result = findLongestCommonPrefix(lcp.string)
             /\ Len(lcp.string) = 0 => lcp.result = <<>>
             /\ Len(lcp.string) = 1 => lcp.result = lcp.string[1]
             /\ Len(lcp.string) >= 1 => lcp.result = LongestCommon(lcp.string))

\* The call returned "a" for ["ab", "aa", "a"], after shrinking "ab".
C37_Witness ==
    /\ lcp.pc = "done"
    /\ lcp.string = <<<<"a", "b">>, <<"a", "a">>, <<"a">>>>
    /\ lcp.result = <<"a">>

----------------------------------------------------------------------------
(* The completer and the keys of the line editor                              *)

\* Most characters typed into a line, most Tab presses in a row, and most
\* lines with a command entered.
MaxBuffer == 3
MaxTabs == 3
MaxEntered == 1

\* The keys typed besides Tab, Backspace and Enter.
TabKeys == {"e", "c", SP}

\* [...BUILTINS] followed by the executables readdirSync finds in PATH.
Candidates == BUILTINS \o <<Str_cat, Str_wc>>

\* [...new Set(matches)]: the first occurrence of each element, in order.
RECURSIVE Unique(_, _)
Unique(matches, seen) ==
    IF matches = <<>> THEN seen
    ELSE Unique(Tail(matches),
                IF \E k \in 1..Len(seen) : seen[k] = Head(matches)
                THEN seen ELSE Append(seen, Head(matches)))

\* completer(line) when lastTabInput is last: what it returns, what it leaves
\* in lastTabInput, and whether it rang the bell or printed the matches.
completer(last, ln) ==
    LET partial == Trim(ln)
        unique == Unique(SelectSeq(Candidates, LAMBDA c : IsPrefix(partial, c)), <<>>)
        quiet == [lastTabInput |-> last, completions |-> <<>>, completeOn |-> ln,
                  matches |-> unique, listed |-> FALSE, bell |-> FALSE]
    IN  IF \E k \in 1..Len(partial) : partial[k] = SP
        THEN [quiet EXCEPT !.matches = <<>>]
        ELSE IF Len(unique) = 0
        THEN [quiet EXCEPT !.bell = TRUE]
        ELSE IF Len(unique) = 1
        THEN [quiet EXCEPT !.completions = <<unique[1] \o <<SP>>>>,
                           !.completeOn = partial]
        ELSE IF last = ln
        THEN [quiet EXCEPT !.completions = <<findLongestCommonPrefix(unique)>>,
                           !.completeOn = partial, !.listed = TRUE]
        ELSE [quiet EXCEPT !.lastTabInput = ln,
                           !.completions = <<findLongestCommonPrefix(unique)>>,
                           !.completeOn = partial]

\* What the interface created with `completer: completer` makes of the
\* result: the part of the one completion beyond completeOn is inserted.
Completed(ln, completions, completeOn) ==
    IF completions = <<>> THEN ln
    ELSE IF IsPrefix(completeOn, completions[1])
            /\ Len(completions[1]) > Len(completeOn)
    THEN ln \o Slice(completions[1], Len(completeOn))
    ELSE ln

\* The shell waits for input with an empty line.
TabInit ==
    /\ input = <<>>
    /\ lex = LexInit
    /\ lexpc = "off"
    /\ line = <<>>
    /\ mode = "idle"
    /\ prompts = 0
    /\ world = InitialWorld(Str_home)
    /\ pipe = PipeNone
    /\ single = SingleNone
    /\ promise = "none"
    /\ PlanOff
    /\ ReplOff

\* The Tab key: the interface calls completer with the line and applies what
\* it returns.  press counts this press among the Tab presses in a row on a
\* line that stayed as it is.
TabPress ==
    /\ mode # "exited"
    /\ tab.streak < MaxTabs
    /\ Len(tab.buffer) <= MaxBuffer
    /\ \E r \in {completer(tab.lastTabInput, tab.buffer)} :
          \E ln \in {Completed(tab.buffer, r.completions, r.completeOn)} :
              tab' = [lastTabInput |-> r.lastTabInput, buffer |-> ln,
                      event |-> "tab", listed |-> r.listed,
                      completions |-> r.completions, matches |-> r.matches,
                      bell |-> r.bell, press |-> tab.streak + 1,
                      streak |-> IF ln = tab.buffer THEN tab.streak + 1 ELSE 0]
    /\ UNCHANGED <<overlap, lcp>>
    /\ UNCHANGED parseVars
    /\ UNCHANGED shellVars
    /\ UNCHANGED planVars
    /\ UNCHANGED historyVars

\* What a key other than Tab leaves of the last Tab press.
Edited(ln) ==
    [tab EXCEPT !.buffer = ln, !.event = "edit", !.listed = FALSE,
                !.completions = <<>>, !.matches = <<>>, !.bell = FALSE,
                !.press = 0, !.streak = 0]

\* A character key: the interface appends it; no code of the shell runs.
TypeChar ==
    /\ mode # "exited"
    /\ Len(tab.buffer) < MaxBuffer
    /\ \E c \in TabKeys : tab' = Edited(Append(tab.buffer, c))
    /\ UNCHANGED <<overlap, lcp>>
    /\ UNCHANGED parseVars
    /\ UNCHANGED shellVars
    /\ UNCHANGED planVars
    /\ UNCHANGED historyVars

\* The Backspace key: the interface drops the last character.
Backspace ==
    /\ mode # "exited"
    /\ tab.buffer # <<>>
    /\ tab' = Edited(SubSeq(tab.buffer, 1, Len(tab.buffer) - 1))
    /\ UNCHANGED <<overlap, lcp>>
    /\ UNCHANGED parseVars
    /\ UNCHANGED shellVars
    /\ UNCHANGED planVars
    /\ UNCHANGED historyVars

\* The Enter key once the prompt is back: the `line` event with the edited
\* line.  The handler clears lastTabInput and then runs as for any line.
EnterLine ==
    /\ mode = "idle" \/ (mode # "exited" /\ prompts >= 1)
    /\ \/ Trim(tab.buffer) = <<>>
       \/ Len(world.history) < Len(InitialWorld(Str_home).history) + MaxEntered
    /\ \E o \in {lineHandler(world, tab.buffer, {})} :
          /\ line' = tab.buffer
          /\ mode' = o.mode
          /\ prompts' = o.prompts
          /\ world' = o.world
          /\ pipe' = o.pipe
          /\ single' = o.single
          /\ promise' = o.promise
    /\ tab' = [Edited(<<>>) EXCEPT !.lastTabInput = null, !.event = "line"]
    /\ UNCHANGED <<overlap, lcp>>
    /\ UNCHANGED parseVars
    /\ UNCHANGED planVars
    /\ UNCHANGED historyVars

TabNext ==
    \/ TabPress
    \/ TypeChar
    \/ Backspace
    \/ EnterLine
    \/ BuiltinThen

SpecTab == TabInit /\ [][TabNext]_vars

\* The last key was Tab and the completer found several candidates.
TabOnSeveral == tab.event = "tab" /\ Len(tab.matches) > 1

\* C38: with several candidates the completer prints the matches only on a
\* Tab press that follows a Tab press on the same line with no key between
\* them; the first Tab press on a line prints nothing and returns the
\* longest common prefix alone.  This holds whatever Tab presses, edits and
\* entered lines came before.
C38_ListOnlyOnSecondTab ==
    /\ (TabOnSeveral /\ tab.listed) => tab.press >= 2
    /\ (TabOnSeveral /\ tab.press = 1) =>
           /\ ~tab.listed
           /\ tab.completions = <<findLongestCommonPrefix(tab.matches)>>

\* Tab was pressed twice on `e`: the second press listed echo and exit.
C38_Witness ==
    /\ TabOnSeveral
    /\ tab.buffer = <<"e">>
    /\ tab.press = 2
    /\ tab.listed
    /\ tab.matches = <<Str_echo, Str_exit>>
    /\ tab.completions = <<<<"e">>>>

====
